---- MODULE Spec2Model ----
(***************************************************************************)
(* A model of orbit-supabase's SupabaseSource (src/src/source.ts): the     *)
(* naming helpers, the convention resolvers, the record serializer and     *)
(* the dispatch of query expressions and record operations to the backend. *)
(*                                                                         *)
(* Strings whose characters the code inspects (type, table, column,        *)
(* attribute and relationship names) are sequences of one-character        *)
(* strings.  A JavaScript object is a sequence of [k, v] entries with      *)
(* distinct keys, in insertion order.  A JavaScript value is a JsVal       *)
(* record; an optional setting is a sequence of length 0 (undefined) or 1. *)
(***************************************************************************)
EXTENDS Integers, Sequences, FiniteSets, TLC

\* ------------------------------------------------------------------------
\* Characters and names
\* ------------------------------------------------------------------------

LowerAlpha ==
  << "a","b","c","d","e","f","g","h","i","j","k","l","m",
     "n","o","p","q","r","s","t","u","v","w","x","y","z" >>

UpperAlpha ==
  << "A","B","C","D","E","F","G","H","I","J","K","L","M",
     "N","O","P","Q","R","S","T","U","V","W","X","Y","Z" >>

IsUpper(c) == \E i \in DOMAIN UpperAlpha : UpperAlpha[i] = c

IsLower(c) == \E i \in DOMAIN LowerAlpha : LowerAlpha[i] = c

ToLower(c) == LowerAlpha[CHOOSE i \in DOMAIN UpperAlpha : UpperAlpha[i] = c]

ToUpper(c) == UpperAlpha[CHOOSE i \in DOMAIN LowerAlpha : LowerAlpha[i] = c]

n_id == << "i","d" >>
n_idSuffix == << "_","i","d" >>
n_user_id == << "u","s","e","r","_","i","d" >>
n_owner_id == << "o","w","n","e","r","_","i","d" >>
n_tenant_id == << "t","e","n","a","n","t","_","i","d" >>
n_created_at == << "c","r","e","a","t","e","d","_","a","t" >>
n_updated_at == << "u","p","d","a","t","e","d","_","a","t" >>
n_inserted == << "i","n","s","e","r","t","e","d" >>
n_post == << "p","o","s","t" >>
n_category == << "c","a","t","e","g","o","r","y" >>
n_user == << "u","s","e","r" >>
n_comment == << "c","o","m","m","e","n","t" >>
n_blog_posts == << "b","l","o","g","_","p","o","s","t","s" >>
n_collection == << "_","c","o","l","l","e","c","t","i","o","n" >>
n_title == << "t","i","t","l","e" >>
n_headline == << "h","e","a","d","l","i","n","e" >>
n_viewCount == << "v","i","e","w","C","o","u","n","t" >>
n_view_count == << "v","i","e","w","_","c","o","u","n","t" >>
n_userId == << "u","s","e","r","I","d" >>
n_ownerId == << "o","w","n","e","r","I","d" >>
n_tenantId == << "t","e","n","a","n","t","I","d" >>
n_createdAt == << "c","r","e","a","t","e","d","A","t" >>
n_updatedAt == << "u","p","d","a","t","e","d","A","t" >>
n_author == << "a","u","t","h","o","r" >>
n_author_id == << "a","u","t","h","o","r","_","i","d" >>
n_writerId == << "w","r","i","t","e","r","I","d" >>
n_comments == << "c","o","m","m","e","n","t","s" >>
n_editor == << "e","d","i","t","o","r" >>
n_blogPost == << "b","l","o","g","P","o","s","t" >>
n_remarks == << "r","e","m","a","r","k","s" >>

\* ------------------------------------------------------------------------
\* JavaScript values, optionals and objects
\* ------------------------------------------------------------------------

None == << >>

Some(x) == << x >>

IsSome(o) == Len(o) = 1

\* JavaScript's  o ?? d
OrElse(o, d) == IF Len(o) = 1 THEN o[1] ELSE d

Str(s) == [t |-> "str", s |-> s, a |-> << >>]

Null == [t |-> "null", s |-> "", a |-> << >>]

Undefined == [t |-> "undef", s |-> "", a |-> << >>]

\* an array of row objects, kept as the sequence of their ids
Arr(ids) == [t |-> "arr", s |-> "", a |-> ids]

\* JavaScript truthiness of a value
Truthy(v) == v.t = "arr" \/ (v.t = "str" /\ v.s # "")

ObjHas(obj, k) == \E i \in DOMAIN obj : obj[i].k = k

\* obj[k], undefined when the key is absent
ObjGet(obj, k) ==
  IF ObjHas(obj, k)
    THEN obj[CHOOSE i \in DOMAIN obj : obj[i].k = k].v
    ELSE Undefined

\* obj[k] = v : an existing key keeps its place, a new key goes last
ObjSet(obj, k, v) ==
  IF ObjHas(obj, k)
    THEN [i \in DOMAIN obj |-> IF obj[i].k = k THEN [k |-> k, v |-> v] ELSE obj[i]]
    ELSE Append(obj, [k |-> k, v |-> v])

\* the object without key k (rest destructuring)
RECURSIVE ObjWithout(_, _)
ObjWithout(obj, k) ==
  IF obj = << >> THEN << >>
  ELSE IF Head(obj).k = k THEN ObjWithout(Tail(obj), k)
  ELSE << Head(obj) >> \o ObjWithout(Tail(obj), k)

\* ------------------------------------------------------------------------
\* InflectionHelper
\* ------------------------------------------------------------------------

endsWith(word, suffix) ==
  /\ Len(word) >= Len(suffix)
  /\ SubSeq(word, Len(word) - Len(suffix) + 1, Len(word)) = suffix

\* a conversion that lowercases capitals without marking the word boundary
RECURSIVE toSnakeCase_Lower(_)
toSnakeCase_Lower(str) ==
  IF str = << >> THEN << >>
  ELSE IF IsUpper(Head(str))
    THEN << ToLower(Head(str)) >> \o toSnakeCase_Lower(Tail(str))
    ELSE << Head(str) >> \o toSnakeCase_Lower(Tail(str))

RECURSIVE toSnakeCase(_)
toSnakeCase(str) ==
  IF str = << >> THEN << >>
  ELSE IF IsUpper(Head(str))
    THEN << "_", ToLower(Head(str)) >> \o toSnakeCase(Tail(str))
    ELSE << Head(str) >> \o toSnakeCase(Tail(str))

RECURSIVE toCamelCase(_)
toCamelCase(str) ==
  IF str = << >> THEN << >>
  ELSE IF Head(str) = "_" /\ Len(str) >= 2 /\ IsLower(str[2])
    THEN << ToUpper(str[2]) >> \o toCamelCase(Tail(Tail(str)))
    ELSE << Head(str) >> \o toCamelCase(Tail(str))

defaultPluralize(word) ==
  IF endsWith(word, << "y" >>)
    THEN SubSeq(word, 1, Len(word) - 1) \o << "i","e","s" >>
  ELSE IF \/ endsWith(word, << "s" >>)
          \/ endsWith(word, << "x" >>)
          \/ endsWith(word, << "z" >>)
          \/ endsWith(word, << "c","h" >>)
          \/ endsWith(word, << "s","h" >>)
    THEN word \o << "e","s" >>
  ELSE word \o << "s" >>

\* the caller-supplied pluralize function of the settings
customPluralize(word) == word \o n_collection

\* InflectionHelper.pluralize: pluralizeFn is the custom function when one
\* was given to the constructor, the default heuristic otherwise
pluralize(settings, word) ==
  IF settings.pluralize = "custom" THEN customPluralize(word)
  ELSE defaultPluralize(word)

\* ------------------------------------------------------------------------
\* Settings and type configuration
\* ------------------------------------------------------------------------

\* a TypeConfig none of whose optional members is set (typeMap[type] ?? {})
EmptyTypeConfig ==
  [ tableName |-> None, attributes |-> << >>, relationships |-> << >>,
    createdAt |-> None, updatedAt |-> None,
    rlsEnabled |-> None, rlsUserIdColumn |-> None ]

\* one entry of an AttributeMap; a hook is "none" when not configured
AttrConfig(column, ser, deser) ==
  [ column |-> column, serialize |-> ser, deserialize |-> deser ]

\* one entry of a RelationshipMap
RelConfig(type, foreignKey, inverseType) ==
  [ type |-> type, foreignKey |-> foreignKey, inverseType |-> inverseType ]

\* The fields the constructor stores, with its defaults applied
SupabaseSource(settings) ==
  [ hasGetUserId |-> settings.hasGetUserId,
    autoInjectUserId |-> OrElse(settings.autoInjectUserId, TRUE),
    userIdColumn |-> OrElse(settings.userIdColumn, n_user_id),
    typeMap |-> OrElse(settings.typeMap, << >>),
    caseTransform |-> OrElse(settings.caseTransform, "snake_case"),
    selectRelationships |-> OrElse(settings.selectRelationships, TRUE),
    pluralize |-> settings.pluralize ]

\* this.typeMap[type] ?? {}
getTypeConfig(this, type) ==
  IF ObjHas(this.typeMap, type) THEN ObjGet(this.typeMap, type)
  ELSE EmptyTypeConfig

\* a resolver that ignores the tableName override
getTableName_Pluralized(this, type) == pluralize(this, type)

getTableName(this, type) ==
  OrElse(getTypeConfig(this, type).tableName, pluralize(this, type))

\* the relationship's configuration as an optional
getRelationshipConfig(this, type, relationship) ==
  LET rels == getTypeConfig(this, type).relationships
  IN IF ObjHas(rels, relationship) THEN Some(ObjGet(rels, relationship))
     ELSE None

\* a resolver in which the global flag decides alone
shouldApplyRLS_Global(this, type) == this.autoInjectUserId

shouldApplyRLS(this, type) ==
  OrElse(getTypeConfig(this, type).rlsEnabled, this.autoInjectUserId)

\* a resolver that ignores the per-type user id column
getUserIdColumn_Global(this, type) == this.userIdColumn

getUserIdColumn(this, type) ==
  OrElse(getTypeConfig(this, type).rlsUserIdColumn, this.userIdColumn)

\* ------------------------------------------------------------------------
\* Records
\* ------------------------------------------------------------------------

\* relationship data: a single identity, null, or an array of identities
RefOne(type, id) == [d |-> "one", type |-> type, id |-> id, refs |-> << >>]

RefNull == [d |-> "null", type |-> << >>, id |-> "", refs |-> << >>]

RefMany(refs) == [d |-> "many", type |-> << >>, id |-> "", refs |-> refs]

Record(type, id, attributes, relationships) ==
  [ type |-> type, id |-> id, attributes |-> attributes,
    relationships |-> relationships ]

\* ------------------------------------------------------------------------
\* RecordSerializer
\* ------------------------------------------------------------------------

\* a configured serialize / deserialize hook applied to a value
ApplyHook(hook, value) ==
  IF hook = "enc" /\ value.t = "str" /\ value.s = "x" THEN Str("X")
  ELSE IF hook = "enc" /\ value.t = "str" /\ value.s = "y" THEN Str("Y")
  ELSE IF hook = "dec" /\ value.t = "str" /\ value.s = "X" THEN Str("x")
  ELSE IF hook = "dec" /\ value.t = "str" /\ value.s = "Y" THEN Str("y")
  ELSE value

\* whether the hook throws on the value, as the date hooks of the tests
\* (new Date(value).toISOString()) do on a value that is no date
hookThrows(hook, value) == hook # "none" /\ value = Str("bad")

transformAttributeName(this, orbitName) ==
  IF this.caseTransform = "snake_case" THEN toSnakeCase(orbitName)
  ELSE orbitName

\* the first attribute whose configured column is columnName, if any
RECURSIVE explicitAttributeName(_, _)
explicitAttributeName(attributes, columnName) ==
  IF attributes = << >> THEN None
  ELSE IF Head(attributes).v.column = Some(columnName)
    THEN Some(Head(attributes).k)
    ELSE explicitAttributeName(Tail(attributes), columnName)

findAttributeName(this, type, columnName) ==
  LET explicit ==
        explicitAttributeName(getTypeConfig(this, type).attributes, columnName)
  IN IF IsSome(explicit) THEN explicit[1]
     ELSE IF this.caseTransform = "snake_case" THEN toCamelCase(columnName)
     ELSE columnName

\* the attribute's configured column and hooks (attrConfig?.x)
attrConfigOf(typeConfig, key) ==
  IF ObjHas(typeConfig.attributes, key) THEN ObjGet(typeConfig.attributes, key)
  ELSE AttrConfig(None, "none", "none")

\* an attribute loop that writes the timestamp attributes too
RECURSIVE serializeAttributes_All(_, _, _, _)
serializeAttributes_All(this, typeConfig, attributes, row) ==
  IF attributes = << >> THEN row
  ELSE
    LET key == Head(attributes).k
        attrConfig == attrConfigOf(typeConfig, key)
        columnName ==
          OrElse(attrConfig.column, transformAttributeName(this, key))
    IN serializeAttributes_All(this, typeConfig, Tail(attributes),
         ObjSet(row, columnName,
                ApplyHook(attrConfig.serialize, Head(attributes).v)))

\* the attribute loop of serialize
RECURSIVE serializeAttributes(_, _, _, _)
serializeAttributes(this, typeConfig, attributes, row) ==
  IF attributes = << >> THEN row
  ELSE
    LET key == Head(attributes).k
        value == Head(attributes).v
        attrConfig == attrConfigOf(typeConfig, key)
        columnName ==
          OrElse(attrConfig.column, transformAttributeName(this, key))
    IN IF \/ columnName = OrElse(typeConfig.createdAt, n_created_at)
          \/ columnName = OrElse(typeConfig.updatedAt, n_updated_at)
         THEN serializeAttributes(this, typeConfig, Tail(attributes), row)
         ELSE serializeAttributes(this, typeConfig, Tail(attributes),
                ObjSet(row, columnName, ApplyHook(attrConfig.serialize, value)))

\* the relationship loop of serialize
RECURSIVE serializeRelationships(_, _, _)
serializeRelationships(typeConfig, relationships, row) ==
  IF relationships = << >> THEN row
  ELSE
    LET key == Head(relationships).k
        rel == Head(relationships).v
        hasConfig == ObjHas(typeConfig.relationships, key)
        relConfig == ObjGet(typeConfig.relationships, key)
    IN IF hasConfig /\ relConfig.type = "hasOne" /\ rel.d # "null"
         THEN
           LET foreignKey == OrElse(relConfig.foreignKey, key \o n_idSuffix)
               columnName == toSnakeCase(foreignKey)
               id == IF rel.d = "one" THEN Str(rel.id) ELSE Undefined
           IN serializeRelationships(typeConfig, Tail(relationships),
                ObjSet(row, columnName, id))
         ELSE serializeRelationships(typeConfig, Tail(relationships), row)

\* serialize throws: the serialize hook of an attribute it writes throws
serializeThrows(this, record) ==
  LET typeConfig == getTypeConfig(this, record.type)
  IN \E i \in DOMAIN record.attributes :
       LET key == record.attributes[i].k
           attrConfig == attrConfigOf(typeConfig, key)
           columnName ==
             OrElse(attrConfig.column, transformAttributeName(this, key))
       IN /\ columnName # OrElse(typeConfig.createdAt, n_created_at)
          /\ columnName # OrElse(typeConfig.updatedAt, n_updated_at)
          /\ hookThrows(attrConfig.serialize, record.attributes[i].v)

serialize(this, record) ==
  LET typeConfig == getTypeConfig(this, record.type)
      row0 == << [k |-> n_id, v |-> Str(record.id)] >>
      row1 == serializeAttributes(this, typeConfig, record.attributes, row0)
  IN serializeRelationships(typeConfig, record.relationships, row1)

\* the attribute loop of deserialize
RECURSIVE deserializeAttributes(_, _, _, _, _)
deserializeAttributes(this, type, typeConfig, entries, attributes) ==
  IF entries = << >> THEN attributes
  ELSE
    LET columnName == Head(entries).k
        value == Head(entries).v
    IN IF \/ columnName = n_id
          \/ columnName = OrElse(typeConfig.rlsUserIdColumn, n_user_id)
          \/ (value.t = "arr" /\ Len(value.a) > 0)
         THEN deserializeAttributes(this, type, typeConfig, Tail(entries),
                attributes)
         ELSE
           LET attrName == findAttributeName(this, type, columnName)
               attrConfig == attrConfigOf(typeConfig, attrName)
           IN deserializeAttributes(this, type, typeConfig, Tail(entries),
                ObjSet(attributes, attrName,
                       ApplyHook(attrConfig.deserialize, value)))

\* the relationship loop of deserialize
RECURSIVE deserializeRelationships(_, _, _)
deserializeRelationships(relationshipConfigs, row, relationships) ==
  IF relationshipConfigs = << >> THEN relationships
  ELSE
    LET relName == Head(relationshipConfigs).k
        relConfig == Head(relationshipConfigs).v
        inverse == OrElse(relConfig.inverseType, relName)
        columnName ==
          toSnakeCase(OrElse(relConfig.foreignKey, relName \o n_idSuffix))
    IN IF relConfig.type = "hasMany" /\ Truthy(ObjGet(row, relName))
         THEN deserializeRelationships(Tail(relationshipConfigs), row,
                ObjSet(relationships, relName,
                  RefMany([i \in DOMAIN ObjGet(row, relName).a |->
                            [type |-> inverse, id |-> ObjGet(row, relName).a[i]]])))
       ELSE IF relConfig.type = "hasOne" /\ Truthy(ObjGet(row, columnName))
         THEN deserializeRelationships(Tail(relationshipConfigs), row,
                ObjSet(relationships, relName,
                  RefOne(inverse, ObjGet(row, columnName).s)))
       ELSE deserializeRelationships(Tail(relationshipConfigs), row,
              relationships)

\* deserialize throws in its attribute loop: the deserialize hook of an
\* attribute it reads throws
deserializeHookThrows(this, type, row) ==
  LET typeConfig == getTypeConfig(this, type)
  IN \E i \in DOMAIN row :
       LET columnName == row[i].k
           value == row[i].v
           attrConfig ==
             attrConfigOf(typeConfig, findAttributeName(this, type, columnName))
       IN /\ columnName # n_id
          /\ columnName # OrElse(typeConfig.rlsUserIdColumn, n_user_id)
          /\ ~(value.t = "arr" /\ Len(value.a) > 0)
          /\ hookThrows(attrConfig.deserialize, value)

deserialize(this, type, row) ==
  LET typeConfig == getTypeConfig(this, type)
  IN [ id |-> ObjGet(row, n_id),
       type |-> type,
       attributes |->
         deserializeAttributes(this, type, typeConfig, row, << >>),
       relationships |->
         deserializeRelationships(typeConfig.relationships, row, << >>) ]

\* ------------------------------------------------------------------------
\* State
\* ------------------------------------------------------------------------

VARIABLES
  this,            \* the constructed source: its configuration fields
  subject,         \* what the getUserId accessor currently returns
  kind,            \* "query" or "update": which entry point runs the batch
  batch,           \* the expressions or operations of the running call
  pos,             \* index in batch of the intent being dispatched
  sub,             \* replaceRelatedRecords: related records gone through
  phase,           \* "Idle", "Running", "BackendCall", "Done", "Failed"
  inflight,        \* the backend request being awaited, if any
  requests,        \* the backend requests the running call has issued,
                   \* each with the index of the intent that issued it
  responses,       \* the backend's answers, each with its intent's index
  results,         \* the results array of the running call, each record
                   \* with the index of the intent that returned it
  failure,         \* the error the call rejected with, if any
  getUserIdCalls,  \* the intents (by index) that invoked getUserId
  serIn,           \* pure-function checks: the record, row or name handed in
  serMid,          \* pure-function checks: the intermediate result(s)
  serOut,          \* pure-function checks: the final result
  serStep,         \* pure-function checks: the step reached, "none" when unused
  calls            \* concurrent callers: the state of each running call

vars ==
  << this, subject, kind, batch, pos, sub, phase, inflight, requests, results,
     failure, getUserIdCalls, responses, serIn, serMid, serOut, serStep,
     calls >>

dispatchVars ==
  << kind, batch, pos, sub, phase, inflight, requests, results, failure,
     getUserIdCalls, responses >>

serVars == << serIn, serMid, serOut, serStep >>

\* ------------------------------------------------------------------------
\* Bounds and input domains
\* ------------------------------------------------------------------------

\* longest batch of expressions or operations handed to one call
MaxBatch == 2

\* typeMap.post in the dispatch specification: every combination of a table
\* override and the two rls members, with two to-one relationships
\* (conventional foreign key, and an override written in camel case) and
\* one to-many relationship; title is stored in the column headline through
\* a pair of hooks, and the overridden table names its created timestamp
\* column inserted
PostAttributes ==
  << [k |-> n_title, v |-> AttrConfig(Some(n_headline), "enc", "dec")] >>

PostRelationships ==
  << [k |-> n_author, v |-> RelConfig("hasOne", None, Some(n_user))],
     [k |-> n_editor,
      v |-> RelConfig("hasOne", Some(n_writerId), Some(n_user))],
     [k |-> n_comments, v |-> RelConfig("hasMany", None, Some(n_comment))] >>

PostConfigs ==
  { [ tableName |-> tn, attributes |-> PostAttributes,
      relationships |-> PostRelationships,
      createdAt |-> IF IsSome(tn) THEN Some(n_inserted) ELSE None,
      updatedAt |-> None,
      rlsEnabled |-> en, rlsUserIdColumn |-> col ] :
      tn \in {None, Some(n_blog_posts)},
      en \in {None, Some(TRUE), Some(FALSE)},
      col \in {None, Some(n_tenant_id)} }

DispatchSettings ==
  { [ hasGetUserId |-> g, autoInjectUserId |-> a, userIdColumn |-> c,
      typeMap |-> tm, caseTransform |-> None, selectRelationships |-> None,
      pluralize |-> p ] :
      g \in BOOLEAN,
      a \in {None, Some(FALSE)},
      c \in {None, Some(n_owner_id)},
      tm \in {None} \cup { Some(<< [k |-> n_post, v |-> tc] >>) : tc \in PostConfigs },
      p \in {"default", "custom"} }

\* what getUserId can return: an identifier or null
Subjects == { Null, Str("u1") }

\* records handed to addRecord and updateRecord
PlainRecord ==
  Record(n_post, "p1", << [k |-> n_title, v |-> Str("x")] >>, << >>)

\* a record whose attributes name every access-control column and every
\* created timestamp column in use
OwnedRecord ==
  Record(n_post, "p1",
         << [k |-> n_title, v |-> Str("x")],
            [k |-> n_userId, v |-> Str("evil")],
            [k |-> n_ownerId, v |-> Str("evil")],
            [k |-> n_tenantId, v |-> Str("evil")],
            [k |-> n_createdAt, v |-> Str("t9")],
            [k |-> n_inserted, v |-> Str("t9")] >>,
         << >>)

\* a record with an attribute named id, an updated timestamp attribute and
\* a to-one relationship
IdAttrRecord ==
  Record(n_post, "p1",
         << [k |-> n_id, v |-> Str("p2")], [k |-> n_title, v |-> Str("y")],
            [k |-> n_updatedAt, v |-> Str("t9")] >>,
         << [k |-> n_author, v |-> RefOne(n_user, "u9")] >>)

Expressions ==
  { [op |-> "findRecords", type |-> n_post, id |-> ""],
    [op |-> "findRecords", type |-> n_category, id |-> ""],
    [op |-> "findRecord", type |-> n_post, id |-> "p1"] }

Identity(type, id) == [type |-> type, id |-> id]

Operation(op, record, relationship, related) ==
  [ op |-> op, record |-> record, relationship |-> relationship,
    relatedRecord |-> related ]

PostIdentity == Record(n_post, "p1", << >>, << >>)

\* a record whose title no serialize hook accepts
BadRecord ==
  Record(n_post, "p1", << [k |-> n_title, v |-> Str("bad")] >>, << >>)

\* relatedRecord is an optional identity: None is null; for
\* replaceRelatedRecords it is the array relatedRecords
Operations ==
  { Operation("addRecord", r, << >>, None) : r \in { PlainRecord, OwnedRecord } }
  \cup { Operation("updateRecord", r, << >>, None) :
           r \in { PlainRecord, IdAttrRecord } }
  \cup { Operation("removeRecord", PostIdentity, << >>, None),
         Operation("replaceRelatedRecord", PostIdentity, n_author, None),
         Operation("replaceRelatedRecord", PostIdentity, n_editor,
                   Some(Identity(n_user, "u9"))),
         Operation("replaceRelatedRecord", PostIdentity, n_comments, None),
         Operation("replaceRelatedRecord", PostIdentity, n_comments,
                   Some(Identity(n_comment, "c1"))),
         Operation("updateRecord", BadRecord, << >>, None),
         Operation("replaceRelatedRecords", PostIdentity, n_comments,
                   << Identity(n_comment, "c1"), Identity(n_comment, "c2") >>),
         Operation("addToRelatedRecords", PostIdentity, n_comments,
                   Some(Identity(n_comment, "c1"))),
         Operation("removeFromRelatedRecords", PostIdentity, n_comments,
                   Some(Identity(n_comment, "c1"))) }

RECURSIVE SeqsUpTo(_, _)
SeqsUpTo(S, n) ==
  IF n = 0 THEN { << >> }
  ELSE LET shorter == SeqsUpTo(S, n - 1)
       IN shorter \cup { Append(q, x) : q \in shorter, x \in S }

Batches(S) == SeqsUpTo(S, MaxBatch) \ { << >> }

\* rows the backend can hold for the posts table
RowA ==
  << [k |-> n_id, v |-> Str("p1")],
     [k |-> n_title, v |-> Str("x")],
     [k |-> n_user_id, v |-> Str("u1")],
     [k |-> n_created_at, v |-> Str("t0")] >>

RowB ==
  << [k |-> n_id, v |-> Str("p2")],
     [k |-> n_title, v |-> Str("y")],
     [k |-> n_owner_id, v |-> Str("u1")],
     [k |-> n_author_id, v |-> Str("u9")],
     [k |-> n_comments, v |-> Arr(<< "c1", "c2" >>)] >>

\* a row whose headline no deserialize hook accepts
RowBad ==
  << [k |-> n_id, v |-> Str("p3")],
     [k |-> n_headline, v |-> Str("bad")] >>

\* structured errors of the backend
NotFoundError == [code |-> "PGRST116", message |-> "no rows"]

DeniedError == [code |-> "42501", message |-> "denied"]

Response(error, data) == [error |-> error, data |-> data]

\* answers to a multi-row lookup
ListResponses ==
  { Response(Some(DeniedError), << >>),
    Response(None, << >>),
    Response(None, << RowA, RowB >>),
    Response(None, << RowA, RowBad >>) }

\* answers to a request in single-row mode
SingleResponses ==
  { Response(Some(NotFoundError), << >>),
    Response(Some(DeniedError), << >>),
    Response(None, << RowA >>) }

\* answers to a request that returns no row
PlainResponses ==
  { Response(Some(DeniedError), << >>), Response(None, << >>) }

\* ------------------------------------------------------------------------
\* Requests
\* ------------------------------------------------------------------------

\* a request as built through the supabase-js query builder
Request(op, table, select, order, filters, payload, returning, single) ==
  [ op |-> op, table |-> table, select |-> select, order |-> order,
    filters |-> filters, payload |-> payload, returning |-> returning,
    single |-> single ]

Eq(column, value) == [k |-> column, v |-> value]

\* the embedded selects for the type's hasMany relationships, as
\* << alias, related table >> pairs; << >> stands for the clause '*'
RECURSIVE relationshipSelects(_, _)
relationshipSelects(this_, relationships) ==
  IF relationships = << >> THEN << >>
  ELSE
    LET name == Head(relationships).k
        rel == Head(relationships).v
        rest == relationshipSelects(this_, Tail(relationships))
    IN IF rel.type = "hasMany"
         THEN << << name, getTableName(this_, OrElse(rel.inverseType, name)) >> >>
              \o rest
         ELSE rest

buildSelectClause(this_, type) ==
  IF this_.selectRelationships
    THEN relationshipSelects(this_, getTypeConfig(this_, type).relationships)
    ELSE << >>

\* an accessor whose answer was fixed when the source was constructed
getUserId_Fixed == IF this.hasGetUserId THEN Str("u1") ELSE Undefined

\* this.getUserId?.()
getUserId == IF this.hasGetUserId THEN subject ELSE Undefined

\* the lookup findRecords awaits; userId is the subject when RLS applies
findRecordsRequest(this_, type, userId) ==
  Request("select", getTableName(this_, type), buildSelectClause(this_, type),
          Some(n_created_at),
          IF shouldApplyRLS(this_, type)
            THEN << Eq(getUserIdColumn(this_, type), userId) >>
            ELSE << >>,
          << >>, FALSE, FALSE)

\* the lookup findRecord awaits
findRecordRequest(this_, type, id, userId) ==
  Request("select", getTableName(this_, type), buildSelectClause(this_, type),
          None,
          IF shouldApplyRLS(this_, type)
            THEN << Eq(n_id, Str(id)), Eq(getUserIdColumn(this_, type), userId) >>
            ELSE << Eq(n_id, Str(id)) >>,
          << >>, FALSE, TRUE)

\* whether addRecord consults the accessor and injects the user id column
addRecordInjects(this_, type) ==
  shouldApplyRLS(this_, type) /\ this_.autoInjectUserId

\* the insert addRecord awaits
addRecordRequest(this_, record, userId) ==
  LET row == serialize(this_, record)
  IN Request("insert", getTableName(this_, record.type), << >>, None, << >>,
             IF addRecordInjects(this_, record.type)
               THEN ObjSet(row, getUserIdColumn(this_, record.type), userId)
               ELSE row,
             TRUE, TRUE)

\* the update updateRecord awaits: const { id, ...updateData } = row
updateRecordRequest(this_, record) ==
  LET row == serialize(this_, record)
  IN Request("update", getTableName(this_, record.type), << >>, None,
             << Eq(n_id, ObjGet(row, n_id)) >>,
             ObjWithout(row, n_id), TRUE, TRUE)

\* a delete that also filters by the user id column when RLS applies
removeRecordRequest_Filtered(this_, record) ==
  Request("delete", getTableName(this_, record.type), << >>, None,
          IF shouldApplyRLS(this_, record.type)
            THEN << Eq(n_id, Str(record.id)),
                    Eq(getUserIdColumn(this_, record.type), subject) >>
            ELSE << Eq(n_id, Str(record.id)) >>,
          << >>, FALSE, FALSE)

\* the delete removeRecord awaits
removeRecordRequest(this_, record) ==
  Request("delete", getTableName(this_, record.type), << >>, None,
          << Eq(n_id, Str(record.id)) >>, << >>, FALSE, FALSE)

\* relatedRecord?.id ?? null
relatedIdOrNull(relatedRecord) ==
  IF IsSome(relatedRecord) THEN Str(relatedRecord[1].id) ELSE Null

\* the update replaceRelatedRecord awaits for a hasOne relationship
hasOneRequest(this_, record, relationship, relationshipConfig, relatedRecord) ==
  LET foreignKey == OrElse(relationshipConfig.foreignKey, relationship \o n_idSuffix)
      columnName == toSnakeCase(foreignKey)
  IN Request("update", getTableName(this_, record.type), << >>, None,
             << Eq(n_id, Str(record.id)) >>,
             << [k |-> columnName, v |-> relatedIdOrNull(relatedRecord)] >>,
             FALSE, FALSE)

\* an update that sets the related record's id on the record's own row
hasManyRequest_OwnerRow(this_, record, relatedRecord) ==
  Request("update", getTableName(this_, record.type), << >>, None,
          << Eq(n_id, Str(record.id)) >>,
          << [k |-> toSnakeCase(relatedRecord.type \o n_idSuffix),
              v |-> Str(relatedRecord.id)] >>,
          FALSE, FALSE)

\* the update replaceRelatedRecord awaits for a hasMany relationship
hasManyRequest(this_, record, relatedRecord) ==
  LET inverseForeignKey == record.type \o n_idSuffix
      columnName == toSnakeCase(inverseForeignKey)
  IN Request("update", getTableName(this_, relatedRecord.type), << >>, None,
             << Eq(n_id, Str(relatedRecord.id)) >>,
             << [k |-> columnName, v |-> Str(record.id)] >>,
             FALSE, FALSE)

\* a not-found test that never recognises the code
isNotFound_Never(error) == FALSE

\* error.code === 'PGRST116'
isNotFound(error) == error.code = "PGRST116"

\* ------------------------------------------------------------------------
\* Steps shared by the handlers
\* ------------------------------------------------------------------------

MissingUserId ==
  [prefix |-> "User ID required for RLS-enabled tables", message |-> ""]

\* throw new Error(`${prefix}: ${error.message}`)
BackendFailure(prefix, error) == [prefix |-> prefix, message |-> error.message]

\* the handler throws before awaiting: the call rejects
ThrowBeforeRequest(error) ==
  /\ phase' = "Failed"
  /\ failure' = Some(error)
  /\ UNCHANGED << pos, sub, inflight, requests, results, responses >>

\* the handler reaches an await: the request goes to the backend; next is
\* the number of related records its loop has then gone through
IssueNext(request, next) ==
  /\ phase' = "BackendCall"
  /\ inflight' = Some(request)
  /\ requests' = Append(requests, [intent |-> pos, request |-> request])
  /\ sub' = next
  /\ UNCHANGED << pos, results, failure, responses >>

Issue(request) == IssueNext(request, sub)

\* a loop that swallows the error and goes on with the next intent
ThrowAfterResponse_Continue(error) ==
  /\ phase' = IF pos = Len(batch) THEN "Done" ELSE "Running"
  /\ pos' = pos + 1
  /\ sub' = 0
  /\ inflight' = None
  /\ UNCHANGED << failure, requests, results >>

\* the handler throws after its await: the call rejects
ThrowAfterResponse(error) ==
  /\ phase' = "Failed"
  /\ failure' = Some(error)
  /\ inflight' = None
  /\ UNCHANGED << pos, sub, requests, results >>

\* a loop that puts the records of an intent in front of the earlier ones
Return_Prepend(records) ==
  /\ results' = [i \in DOMAIN records |->
                   [intent |-> pos, record |-> records[i]]] \o results
  /\ inflight' = None
  /\ pos' = pos + 1
  /\ sub' = 0
  /\ phase' = IF pos = Len(batch) THEN "Done" ELSE "Running"
  /\ UNCHANGED << requests, failure >>

\* the handler returns records: the loop pushes them and moves on
Return(records) ==
  /\ results' = results \o [i \in DOMAIN records |->
                              [intent |-> pos, record |-> records[i]]]
  /\ inflight' = None
  /\ pos' = pos + 1
  /\ sub' = 0
  /\ phase' = IF pos = Len(batch) THEN "Done" ELSE "Running"
  /\ UNCHANGED << requests, failure >>

\* the accessor is invoked once when present
CallGetUserId ==
  getUserIdCalls' =
    IF this.hasGetUserId THEN Append(getUserIdCalls, pos) ELSE getUserIdCalls

\* the backend answers the awaited request
Answer(r) == responses' = Append(responses, [intent |-> pos, response |-> r])

Running(entry, op) ==
  /\ phase = "Running"
  /\ kind = entry
  /\ batch[pos].op = op

Awaiting(op) ==
  /\ phase = "BackendCall"
  /\ batch[pos].op = op

\* a truthy row[relName] of a hasMany relationship that is no array has no
\* map method: deserialize throws a TypeError
deserializeThrows(this_, type, row) ==
  LET rels == getTypeConfig(this_, type).relationships
  IN \E i \in DOMAIN rels :
       /\ rels[i].v.type = "hasMany"
       /\ Truthy(ObjGet(row, rels[i].k))
       /\ ObjGet(row, rels[i].k).t # "arr"

TypeErrorFailure == [prefix |-> "TypeError", message |-> ""]

\* what a hook throws propagates as thrown
HookFailure == [prefix |-> "RangeError", message |-> "Invalid time value"]

\* return this.serializer.deserialize(type, data) for a single-row answer
ReturnDeserialized(type, data) ==
  IF deserializeHookThrows(this, type, data[1])
    THEN ThrowAfterResponse(HookFailure)
  ELSE IF deserializeThrows(this, type, data[1])
    THEN ThrowAfterResponse(TypeErrorFailure)
  ELSE Return(<< deserialize(this, type, data[1]) >>)

\* ------------------------------------------------------------------------
\* Entry points
\* ------------------------------------------------------------------------

\* _query: the call starts its loop over the expressions
query ==
  /\ phase = "Idle"
  /\ \E expressions \in Batches(Expressions) :
       /\ kind' = "query"
       /\ batch' = expressions
  /\ pos' = 1
  /\ phase' = "Running"
  /\ UNCHANGED << this, subject, sub, inflight, requests, results, failure,
                  getUserIdCalls, responses, serVars, calls >>

\* _update: the call starts its loop over the operations
update ==
  /\ phase = "Idle"
  /\ \E ops \in Batches(Operations) :
       /\ kind' = "update"
       /\ batch' = ops
  /\ pos' = 1
  /\ phase' = "Running"
  /\ UNCHANGED << this, subject, sub, inflight, requests, results, failure,
                  getUserIdCalls, responses, serVars, calls >>

\* ------------------------------------------------------------------------
\* Query operations
\* ------------------------------------------------------------------------

\* findRecords up to its await
findRecords ==
  /\ Running("query", "findRecords")
  /\ LET type == batch[pos].type
     IN IF shouldApplyRLS(this, type)
          THEN /\ CallGetUserId
               /\ IF ~Truthy(getUserId)
                    THEN ThrowBeforeRequest(MissingUserId)
                    ELSE Issue(findRecordsRequest(this, type, getUserId))
          ELSE /\ UNCHANGED getUserIdCalls
               /\ Issue(findRecordsRequest(this, type, Undefined))
  /\ UNCHANGED << this, subject, kind, batch, serVars, calls >>

\* findRecords from its await on
findRecordsResume ==
  /\ Awaiting("findRecords")
  /\ \E r \in ListResponses :
       /\ Answer(r)
       /\ IF IsSome(r.error)
            THEN ThrowAfterResponse(BackendFailure("Supabase query error", r.error[1]))
          ELSE IF \E i \in DOMAIN r.data :
                    deserializeHookThrows(this, batch[pos].type, r.data[i])
            THEN ThrowAfterResponse(HookFailure)
          ELSE IF \E i \in DOMAIN r.data :
                    deserializeThrows(this, batch[pos].type, r.data[i])
            THEN ThrowAfterResponse(TypeErrorFailure)
          ELSE Return([i \in DOMAIN r.data |->
                         deserialize(this, batch[pos].type, r.data[i])])
  /\ UNCHANGED << this, subject, kind, batch, getUserIdCalls, serVars, calls >>

\* findRecord up to its await
findRecord ==
  /\ Running("query", "findRecord")
  /\ LET type == batch[pos].type
         id == batch[pos].id
     IN IF shouldApplyRLS(this, type)
          THEN /\ CallGetUserId
               /\ IF ~Truthy(getUserId)
                    THEN ThrowBeforeRequest(MissingUserId)
                    ELSE Issue(findRecordRequest(this, type, id, getUserId))
          ELSE /\ UNCHANGED getUserIdCalls
               /\ Issue(findRecordRequest(this, type, id, Undefined))
  /\ UNCHANGED << this, subject, kind, batch, serVars, calls >>

\* findRecord from its await on, and queryExpression's r ? [r] : []
findRecordResume ==
  /\ Awaiting("findRecord")
  /\ \E r \in SingleResponses :
       /\ Answer(r)
       /\ IF IsSome(r.error)
            THEN IF isNotFound(r.error[1])
                   THEN Return(<< >>)
                   ELSE ThrowAfterResponse(
                          BackendFailure("Supabase query error", r.error[1]))
            ELSE ReturnDeserialized(batch[pos].type, r.data)
  /\ UNCHANGED << this, subject, kind, batch, getUserIdCalls, serVars, calls >>

\* ------------------------------------------------------------------------
\* Update operations
\* ------------------------------------------------------------------------

\* addRecord up to its await
addRecord ==
  /\ Running("update", "addRecord")
  /\ LET record == batch[pos].record
     IN IF serializeThrows(this, record)
          THEN /\ UNCHANGED getUserIdCalls
               /\ ThrowBeforeRequest(HookFailure)
        ELSE IF addRecordInjects(this, record.type)
          THEN /\ CallGetUserId
               /\ IF ~Truthy(getUserId)
                    THEN ThrowBeforeRequest(MissingUserId)
                    ELSE Issue(addRecordRequest(this, record, getUserId))
          ELSE /\ UNCHANGED getUserIdCalls
               /\ Issue(addRecordRequest(this, record, Undefined))
  /\ UNCHANGED << this, subject, kind, batch, serVars, calls >>

\* addRecord from its await on
addRecordResume ==
  /\ Awaiting("addRecord")
  /\ \E r \in SingleResponses :
       /\ Answer(r)
       /\ IF IsSome(r.error)
            THEN ThrowAfterResponse(BackendFailure("Supabase insert error", r.error[1]))
            ELSE ReturnDeserialized(batch[pos].record.type, r.data)
  /\ UNCHANGED << this, subject, kind, batch, getUserIdCalls, serVars, calls >>

\* updateRecord up to its await
updateRecord ==
  /\ Running("update", "updateRecord")
  /\ IF serializeThrows(this, batch[pos].record)
       THEN ThrowBeforeRequest(HookFailure)
       ELSE Issue(updateRecordRequest(this, batch[pos].record))
  /\ UNCHANGED << this, subject, kind, batch, getUserIdCalls, serVars, calls >>

\* updateRecord from its await on
updateRecordResume ==
  /\ Awaiting("updateRecord")
  /\ \E r \in SingleResponses :
       /\ Answer(r)
       /\ IF IsSome(r.error)
            THEN ThrowAfterResponse(BackendFailure("Supabase update error", r.error[1]))
            ELSE ReturnDeserialized(batch[pos].record.type, r.data)
  /\ UNCHANGED << this, subject, kind, batch, getUserIdCalls, serVars, calls >>

\* removeRecord up to its await
removeRecord ==
  /\ Running("update", "removeRecord")
  /\ Issue(removeRecordRequest(this, batch[pos].record))
  /\ UNCHANGED << this, subject, kind, batch, getUserIdCalls, serVars, calls >>

\* removeRecord from its await on: returns null, nothing is pushed
removeRecordResume ==
  /\ Awaiting("removeRecord")
  /\ \E r \in PlainResponses :
       /\ Answer(r)
       /\ IF IsSome(r.error)
            THEN ThrowAfterResponse(BackendFailure("Supabase delete error", r.error[1]))
            ELSE Return(<< >>)
  /\ UNCHANGED << this, subject, kind, batch, getUserIdCalls, serVars, calls >>

\* ------------------------------------------------------------------------
\* Relationship operations
\* ------------------------------------------------------------------------

\* the request replaceRelatedRecord awaits, if it awaits one: none without
\* a relationship configuration, and none for a hasMany one with null
replaceRelatedRecordRequest(this_, record, relationship, relatedRecord) ==
  LET relationshipConfig ==
        getRelationshipConfig(this_, record.type, relationship)
  IN IF IsSome(relationshipConfig) /\ relationshipConfig[1].type = "hasOne"
       THEN Some(hasOneRequest(this_, record, relationship,
                               relationshipConfig[1], relatedRecord))
     ELSE IF /\ IsSome(relationshipConfig)
             /\ relationshipConfig[1].type = "hasMany"
             /\ IsSome(relatedRecord)
       THEN Some(hasManyRequest(this_, record, relatedRecord[1]))
     ELSE None

\* replaceRelatedRecord up to its await, or to its return when it awaits
\* nothing
replaceRelatedRecordBody ==
  LET request ==
        replaceRelatedRecordRequest(this, batch[pos].record,
          batch[pos].relationship, batch[pos].relatedRecord)
  IN IF IsSome(request) THEN Issue(request[1])
     ELSE /\ Return(<< >>)
          /\ UNCHANGED responses

\* replaceRelatedRecord from its await on
replaceRelatedRecordTail ==
  \E r \in PlainResponses :
    /\ Answer(r)
    /\ IF IsSome(r.error)
         THEN ThrowAfterResponse(BackendFailure("Supabase update error", r.error[1]))
         ELSE Return(<< >>)

replaceRelatedRecord ==
  /\ Running("update", "replaceRelatedRecord")
  /\ replaceRelatedRecordBody
  /\ UNCHANGED << this, subject, kind, batch, getUserIdCalls, serVars, calls >>

replaceRelatedRecordResume ==
  /\ Awaiting("replaceRelatedRecord")
  /\ replaceRelatedRecordTail
  /\ UNCHANGED << this, subject, kind, batch, getUserIdCalls, serVars, calls >>

\* a loop that starts from the last related record
replaceRelatedRecords_LastFirst ==
  /\ Running("update", "replaceRelatedRecords")
  /\ LET relatedRecords == batch[pos].relatedRecord
         awaiting ==
           { j \in (sub + 1) .. Len(relatedRecords) :
               IsSome(replaceRelatedRecordRequest(this, batch[pos].record,
                        batch[pos].relationship, Some(relatedRecords[j]))) }
     IN IF awaiting = { }
          THEN /\ Return(<< >>)
               /\ UNCHANGED responses
          ELSE LET j == CHOOSE m \in awaiting : \A n \in awaiting : m >= n
               IN IssueNext(
                    replaceRelatedRecordRequest(this, batch[pos].record,
                      batch[pos].relationship, Some(relatedRecords[j]))[1],
                    j)
  /\ UNCHANGED << this, subject, kind, batch, getUserIdCalls, serVars, calls >>

\* replaceRelatedRecords: one turn of its loop up to the await inside
\* replaceRelatedRecord, or its return once the loop is over (a turn that
\* awaits nothing goes straight on to the next)
replaceRelatedRecords ==
  /\ Running("update", "replaceRelatedRecords")
  /\ LET relatedRecords == batch[pos].relatedRecord
         awaiting ==
           { j \in (sub + 1) .. Len(relatedRecords) :
               IsSome(replaceRelatedRecordRequest(this, batch[pos].record,
                        batch[pos].relationship, Some(relatedRecords[j]))) }
     IN IF awaiting = { }
          THEN /\ Return(<< >>)
               /\ UNCHANGED responses
          ELSE LET j == CHOOSE m \in awaiting : \A n \in awaiting : m <= n
               IN IssueNext(
                    replaceRelatedRecordRequest(this, batch[pos].record,
                      batch[pos].relationship, Some(relatedRecords[j]))[1],
                    j)
  /\ UNCHANGED << this, subject, kind, batch, getUserIdCalls, serVars, calls >>

\* replaceRelatedRecords from the await of one turn on: the loop goes on, or
\* the error thrown by replaceRelatedRecord ends the call
replaceRelatedRecordsResume ==
  /\ Awaiting("replaceRelatedRecords")
  /\ \E r \in PlainResponses :
       /\ Answer(r)
       /\ IF IsSome(r.error)
            THEN ThrowAfterResponse(BackendFailure("Supabase update error", r.error[1]))
            ELSE /\ phase' = "Running"
                 /\ inflight' = None
                 /\ UNCHANGED << pos, sub, requests, results, failure >>
  /\ UNCHANGED << this, subject, kind, batch, getUserIdCalls, serVars, calls >>

\* an addToRelatedRecords that returns null at once
addToRelatedRecords_Noop ==
  /\ Running("update", "addToRelatedRecords")
  /\ Return(<< >>)
  /\ UNCHANGED << this, subject, kind, batch, getUserIdCalls, responses,
                  serVars, calls >>

\* addToRelatedRecords returns what replaceRelatedRecord returns
addToRelatedRecords ==
  /\ Running("update", "addToRelatedRecords")
  /\ replaceRelatedRecordBody
  /\ UNCHANGED << this, subject, kind, batch, getUserIdCalls, serVars, calls >>

addToRelatedRecordsResume ==
  /\ Awaiting("addToRelatedRecords")
  /\ replaceRelatedRecordTail
  /\ UNCHANGED << this, subject, kind, batch, getUserIdCalls, serVars, calls >>

removeFromRelatedRecords_Delegating ==
  /\ Running("update", "removeFromRelatedRecords")
  /\ replaceRelatedRecordBody
  /\ UNCHANGED << this, subject, kind, batch, getUserIdCalls, serVars, calls >>

\* removeFromRelatedRecords returns null at once
removeFromRelatedRecords ==
  /\ Running("update", "removeFromRelatedRecords")
  /\ Return(<< >>)
  /\ UNCHANGED << this, subject, kind, batch, getUserIdCalls, responses,
                  serVars, calls >>

\* ------------------------------------------------------------------------
\* Specification of the dispatcher
\* ------------------------------------------------------------------------

NoSer ==
  /\ serIn = << >>
  /\ serMid = << >>
  /\ serOut = << >>
  /\ serStep = "none"

\* no call of the concurrent callers is under way
NoCalls == calls = << >>

IdleDispatcher ==
  /\ kind = "none"
  /\ batch = << >>
  /\ pos = 0
  /\ sub = 0
  /\ phase = "Idle"
  /\ inflight = None
  /\ requests = << >>
  /\ results = << >>
  /\ failure = None
  /\ getUserIdCalls = << >>
  /\ responses = << >>

Init ==
  /\ \E settings \in DispatchSettings :
       /\ this = SupabaseSource(settings)
       /\ subject \in (IF settings.hasGetUserId THEN Subjects ELSE { Undefined })
  /\ IdleDispatcher
  /\ NoCalls
  /\ NoSer

Next ==
  \/ query
  \/ update
  \/ findRecords
  \/ findRecordsResume
  \/ findRecord
  \/ findRecordResume
  \/ addRecord
  \/ addRecordResume
  \/ updateRecord
  \/ updateRecordResume
  \/ removeRecord
  \/ removeRecordResume
  \/ replaceRelatedRecord
  \/ replaceRelatedRecordResume
  \/ replaceRelatedRecords
  \/ replaceRelatedRecordsResume
  \/ addToRelatedRecords
  \/ addToRelatedRecordsResume
  \/ removeFromRelatedRecords

Spec == Init /\ [][Next]_vars

\* ------------------------------------------------------------------------
\* What the specification's resolvers prescribe, read from the configuration
\* ------------------------------------------------------------------------

\* whether typeMap has a member for the type
Configured(type) == ObjHas(this.typeMap, type)

\* accessControlEnabled(type): per-type rls.enabled, else the global flag
AccessControlEnabled(type) ==
  IF Configured(type) /\ IsSome(ObjGet(this.typeMap, type).rlsEnabled)
    THEN ObjGet(this.typeMap, type).rlsEnabled[1]
    ELSE this.autoInjectUserId

\* accessControlColumn(type): per-type rls.userIdColumn, else the global name
AccessControlColumn(type) ==
  IF Configured(type) /\ IsSome(ObjGet(this.typeMap, type).rlsUserIdColumn)
    THEN ObjGet(this.typeMap, type).rlsUserIdColumn[1]
    ELSE this.userIdColumn

\* tableName(type): the override, else the caller's pluralize, else the default
TableName(type) ==
  IF Configured(type) /\ IsSome(ObjGet(this.typeMap, type).tableName)
    THEN ObjGet(this.typeMap, type).tableName[1]
  ELSE IF this.pluralize = "custom" THEN type \o n_collection
  ELSE defaultPluralize(type)

\* foreignKeyColumn(type, relationship): the override as configured, else the
\* snake-cased "{relationship}_id"
ForeignKeyColumn(type, relationship) ==
  LET rels == ObjGet(this.typeMap, type).relationships
  IN IF IsSome(ObjGet(rels, relationship).foreignKey)
       THEN ObjGet(rels, relationship).foreignKey[1]
       ELSE toSnakeCase(relationship \o n_idSuffix)

\* columnName(type, attribute): the per-attribute override, else the name
\* case-converted per the global mode
ColumnName(type, attribute) ==
  LET attrs == IF Configured(type) THEN ObjGet(this.typeMap, type).attributes
               ELSE << >>
  IN IF ObjHas(attrs, attribute) /\ IsSome(ObjGet(attrs, attribute).column)
       THEN ObjGet(attrs, attribute).column[1]
     ELSE IF this.caseTransform = "snake_case" THEN toSnakeCase(attribute)
     ELSE attribute

\* the type's created and updated timestamp columns
TimestampColumns(type) ==
  IF Configured(type)
    THEN { OrElse(ObjGet(this.typeMap, type).createdAt, n_created_at),
           OrElse(ObjGet(this.typeMap, type).updatedAt, n_updated_at) }
    ELSE { n_created_at, n_updated_at }

\* the accessor is missing or returns no identifier
NoSubject == ~this.hasGetUserId \/ ~Truthy(subject)

Intents == 1 .. Len(batch)

\* the type an intent reads or writes
TypeOf(i) ==
  IF kind = "query" THEN batch[i].type ELSE batch[i].record.type

IsRead(i) == kind = "query" /\ batch[i].op \in { "findRecords", "findRecord" }

IsCreate(i) == kind = "update" /\ batch[i].op = "addRecord"

\* the requests, answers and records of intent i
RequestsOf(i) == SelectSeq(requests, LAMBDA e : e.intent = i)

ResponsesOf(i) == SelectSeq(responses, LAMBDA e : e.intent = i)

ResultsOf(i) == SelectSeq(results, LAMBDA e : e.intent = i)

\* intent i returned to the loop of its call
Completed(i) == pos > i

\* intent i made its call reject with the given error
FailedWith(i, error) == phase = "Failed" /\ pos = i /\ failure = Some(error)

HasFilter(request, column, value) ==
  \E j \in DOMAIN request.filters : request.filters[j] = Eq(column, value)

FiltersOn(request, column) ==
  \E j \in DOMAIN request.filters : request.filters[j].k = column

\* intent i left the loop's hands: it awaits, returned or threw
Dispatched(i) == pos > i \/ (pos = i /\ phase # "Running")

\* the relationship of intent i is configured hasOne
IsToOneSet(i) ==
  /\ kind = "update"
  /\ batch[i].op = "replaceRelatedRecord"
  /\ Configured(TypeOf(i))
  /\ LET rels == ObjGet(this.typeMap, TypeOf(i)).relationships
     IN /\ ObjHas(rels, batch[i].relationship)
        /\ ObjGet(rels, batch[i].relationship).type = "hasOne"

\* ------------------------------------------------------------------------
\* Claims about the dispatcher
\* ------------------------------------------------------------------------

\* C1: for a type with access control enabled (per-type rls.enabled, else the
\* global flag), when the accessor is missing or returns no identifier, every
\* findAll, findOne and create fails with the missing-subject error and no
\* backend request is issued for that intent.
C1_NoSubjectFailsBeforeRequest ==
  \A i \in Intents :
    (IsRead(i) \/ IsCreate(i)) /\ AccessControlEnabled(TypeOf(i)) /\ NoSubject
      => /\ RequestsOf(i) = << >>
         /\ ~Completed(i)
         /\ (Dispatched(i) => FailedWith(i, MissingUserId))

\* C2: every create for a type with access control enabled sends an insert
\* row whose access-control column equals the current subject, whatever the
\* record's attributes supplied for that column.
C2_CreateInjectsSubject ==
  \A i \in Intents :
    IsCreate(i) /\ AccessControlEnabled(TypeOf(i))
      => \A j \in DOMAIN RequestsOf(i) :
           LET q == RequestsOf(i)[j].request
           IN /\ q.op = "insert"
              /\ this.hasGetUserId
              /\ Truthy(subject)
              /\ ObjGet(q.payload, AccessControlColumn(TypeOf(i))) = subject

\* C3: every findAll and findOne for a type with access control enabled
\* issues one lookup that carries, in that same request, the equality filter
\* accessControlColumn(type) = subject (findOne next to its id filter); no
\* lookup for such a type goes out without it.
C3_ReadsCarrySubjectFilter ==
  \A i \in Intents :
    IsRead(i) /\ AccessControlEnabled(TypeOf(i))
      => /\ Len(RequestsOf(i)) <= 1
         /\ (Completed(i) => Len(RequestsOf(i)) = 1)
         /\ \A j \in DOMAIN RequestsOf(i) :
              LET q == RequestsOf(i)[j].request
              IN /\ q.op = "select"
                 /\ Truthy(subject)
                 /\ HasFilter(q, AccessControlColumn(TypeOf(i)), subject)
                 /\ (batch[i].op = "findRecord"
                       => q.single /\ HasFilter(q, n_id, Str(batch[i].id)))

\* C3 witness: a findOne on a type whose column is the per-type override
\* returned after its one filtered lookup.
C3_Witness ==
  \E i \in Intents :
    /\ IsRead(i)
    /\ batch[i].op = "findRecord"
    /\ AccessControlEnabled(TypeOf(i))
    /\ AccessControlColumn(TypeOf(i)) = n_tenant_id
    /\ this.userIdColumn = n_owner_id
    /\ Completed(i)
    /\ HasFilter(RequestsOf(i)[1].request, n_tenant_id, Str("u1"))

\* C4: access control applies to a type per its rls.enabled setting when
\* present, else per the global flag; when it does not apply, no findAll,
\* findOne or create for the type invokes the accessor, filters on the
\* access-control column or adds that column to the outgoing row.
C4_DisabledTypeUntouched ==
  /\ \A type \in { n_post, n_category } :
       shouldApplyRLS(this, type) = AccessControlEnabled(type)
  /\ \A i \in Intents :
       (IsRead(i) \/ IsCreate(i)) /\ ~AccessControlEnabled(TypeOf(i))
         => /\ \A c \in DOMAIN getUserIdCalls : getUserIdCalls[c] # i
            /\ \A j \in DOMAIN RequestsOf(i) :
                 LET q == RequestsOf(i)[j].request
                     col == AccessControlColumn(TypeOf(i))
                 IN /\ ~FiltersOn(q, col)
                    /\ (IsCreate(i) =>
                          ObjGet(q.payload, col)
                            = ObjGet(serialize(this, batch[i].record), col))

\* C4 witness: a create went out for a type disabled per type while the
\* global flag is on and a subject is at hand.
C4_Witness ==
  \E i \in Intents :
    /\ IsCreate(i)
    /\ Configured(TypeOf(i))
    /\ ObjGet(this.typeMap, TypeOf(i)).rlsEnabled = Some(FALSE)
    /\ this.autoInjectUserId
    /\ this.hasGetUserId
    /\ Truthy(subject)
    /\ batch[i].record = PlainRecord
    /\ Len(RequestsOf(i)) = 1
    /\ ~ObjHas(RequestsOf(i)[1].request.payload, AccessControlColumn(TypeOf(i)))

\* C5: deserialize never produces an attribute from the type's
\* access-control column (per-type override, else the global column name):
\* no returned record has an attribute under that column's name.
C5_AccessColumnNeverAnAttribute ==
  \A k \in DOMAIN results :
    LET rec == results[k].record
        col == AccessControlColumn(rec.type)
    IN /\ ~ObjHas(rec.attributes, col)
       /\ ~ObjHas(rec.attributes, toCamelCase(col))

\* C6: findOne returns exactly one record or none: a not-found answer
\* completes the intent with an empty result, any other backend error fails
\* it, and a row yields exactly that one record.
C6_FindOneNotFoundIsEmpty ==
  \A i \in Intents :
    kind = "query" /\ batch[i].op = "findRecord"
      => /\ Len(ResultsOf(i)) <= 1
         /\ \A j \in DOMAIN ResponsesOf(i) :
              LET r == ResponsesOf(i)[j].response
              IN IF IsSome(r.error) /\ r.error[1].code = "PGRST116"
                   THEN Completed(i) /\ ResultsOf(i) = << >>
                 ELSE IF IsSome(r.error)
                   THEN phase = "Failed" /\ pos = i /\ IsSome(failure)
                 ELSE /\ Completed(i)
                      /\ Len(ResultsOf(i)) = 1
                      /\ ResultsOf(i)[1].record.id = ObjGet(r.data[1], n_id)

\* C6 witness: a call of one findOne on an access-controlled type is done,
\* the backend having reported not-found, with no result.
C6_Witness ==
  /\ phase = "Done"
  /\ kind = "query"
  /\ Len(batch) = 1
  /\ batch[1].op = "findRecord"
  /\ AccessControlEnabled(TypeOf(1))
  /\ ResponsesOf(1)[1].response.error = Some(NotFoundError)
  /\ results = << >>

\* C7: every request of findAll, findOne, create, update, delete and to-one
\* setOne for a record of type T targets tableName(T): the configured
\* override, else the caller's pluralize function, else the default one.
C7_RequestsTargetTableName ==
  \A k \in DOMAIN requests :
    LET i == requests[k].intent
    IN \/ IsRead(i)
       \/ (kind = "update" /\ batch[i].op \in
             { "addRecord", "updateRecord", "removeRecord" })
       \/ IsToOneSet(i)
       => requests[k].request.table = TableName(TypeOf(i))

\* C7 witness: with a custom pluralize function and a table override, an
\* update went to the override.
C7_Witness ==
  \E k \in DOMAIN requests :
    /\ kind = "update"
    /\ batch[requests[k].intent].op = "updateRecord"
    /\ this.pluralize = "custom"
    /\ requests[k].request.table = n_blog_posts

\* C8: update(record) issues one update request (none when a serialize hook
\* threw first) whose payload never has the key id and whose id filter
\* equals record.id.
C8_UpdateExcludesId ==
  \A i \in Intents :
    kind = "update" /\ batch[i].op = "updateRecord"
      => /\ Len(RequestsOf(i)) <= 1
         /\ (Dispatched(i) /\ ~FailedWith(i, HookFailure)
               => Len(RequestsOf(i)) = 1)
         /\ \A j \in DOMAIN RequestsOf(i) :
              LET q == RequestsOf(i)[j].request
              IN /\ q.op = "update"
                 /\ ~ObjHas(q.payload, n_id)
                 /\ q.filters = << Eq(n_id, Str(batch[i].record.id)) >>

\* C9: for a relationship configured to-one, setOne issues exactly one
\* update on the owner's table, filtered by owner.id, whose payload is
\* exactly {foreignKeyColumn: target.id}, or {foreignKeyColumn: null} for a
\* null target.
C9_SetOneWritesForeignKey ==
  \A i \in Intents :
    IsToOneSet(i)
      => /\ Len(RequestsOf(i)) <= 1
         /\ (Dispatched(i) => Len(RequestsOf(i)) = 1)
         /\ \A j \in DOMAIN RequestsOf(i) :
              LET q == RequestsOf(i)[j].request
                  target == batch[i].relatedRecord
              IN /\ q.op = "update"
                 /\ q.table = TableName(TypeOf(i))
                 /\ q.filters = << Eq(n_id, Str(batch[i].record.id)) >>
                 /\ q.payload =
                      << [ k |-> ForeignKeyColumn(TypeOf(i), batch[i].relationship),
                           v |-> IF IsSome(target) THEN Str(target[1].id)
                                 ELSE Null ] >>

\* the requests of create and update intents
IsWrite(i) == kind = "update" /\ batch[i].op \in { "addRecord", "updateRecord" }

\* C13: the row that create or update sends has no key equal to the type's
\* created or updated timestamp column (the configured names, else created_at
\* and updated_at), even when the record's attributes map to those columns.
C13_NoTimestampColumnWritten ==
  \A k \in DOMAIN requests :
    IsWrite(requests[k].intent)
      => \A c \in TimestampColumns(TypeOf(requests[k].intent)) :
           ~ObjHas(requests[k].request.payload, c)

\* C13 witness: a record with the attributes createdAt and inserted was
\* created on a type whose created timestamp column is inserted, and a record
\* with the attribute updatedAt was updated.
C13_Witness ==
  /\ kind = "update"
  /\ Len(batch) = 2
  /\ batch[1].op = "addRecord"
  /\ batch[1].record = OwnedRecord
  /\ batch[2].op = "updateRecord"
  /\ batch[2].record = IdAttrRecord
  /\ Configured(n_post)
  /\ TimestampColumns(n_post) = { n_inserted, n_updated_at }
  /\ Len(requests) = 2
  /\ ObjHas(requests[1].request.payload, n_created_at)
  /\ ~ObjHas(requests[1].request.payload, n_inserted)
  /\ ~ObjHas(requests[2].request.payload, n_updated_at)

\* the attribute's configured hooks, "none" where not configured
HooksOf(type, attribute) ==
  LET attrs == IF Configured(type) THEN ObjGet(this.typeMap, type).attributes
               ELSE << >>
  IN IF ObjHas(attrs, attribute) THEN ObjGet(attrs, attribute)
     ELSE [column |-> None, serialize |-> "none", deserialize |-> "none"]

\* the attribute a column is read back as: reverse lookup in the column
\* overrides, else the camel-cased column
AttributeOfColumn(type, column) ==
  LET attrs == IF Configured(type) THEN ObjGet(this.typeMap, type).attributes
               ELSE << >>
      hits == { a \in DOMAIN attrs : attrs[a].v.column = Some(column) }
  IN IF hits # { } THEN attrs[CHOOSE a \in hits : \A b \in hits : a <= b].k
     ELSE toCamelCase(column)

\* the rows the backend returned to intent i, in order
RowsOf(i) ==
  IF ResponsesOf(i) = << >> THEN << >>
  ELSE ResponsesOf(i)[1].response.data

\* C14: under the snake_case mode, create and update write every
\* non-timestamp attribute (k, v) under columnName(type, k) with the value
\* serializeHook(v) when a hook is configured and v otherwise; reads map
\* every column other than id, the access-control column and an embedded
\* array back to the attribute found by reverse lookup in the column
\* overrides, else by camel-casing, with the value deserializeHook(value)
\* when a hook is configured and the value otherwise.
C14_AttributesMappedBothWays ==
  /\ \A k \in DOMAIN requests :
       LET i == requests[k].intent
           attributes == batch[i].record.attributes
       IN IsWrite(i) =>
            \A a \in DOMAIN attributes :
              LET c == ColumnName(TypeOf(i), attributes[a].k)
              IN c \notin TimestampColumns(TypeOf(i))
                   => ObjGet(requests[k].request.payload, c)
                        = ApplyHook(HooksOf(TypeOf(i), attributes[a].k).serialize,
                                    attributes[a].v)
  /\ \A i \in Intents :
       IsRead(i) /\ Completed(i) =>
         \A j \in DOMAIN ResultsOf(i) :
           \A e \in DOMAIN RowsOf(i)[j] :
             LET c == RowsOf(i)[j][e].k
                 v == RowsOf(i)[j][e].v
                 name == AttributeOfColumn(TypeOf(i), c)
             IN /\ c # n_id
                /\ c # AccessControlColumn(TypeOf(i))
                /\ ~(v.t = "arr" /\ Len(v.a) > 0)
                => ObjGet(ResultsOf(i)[j].record.attributes, name)
                     = ApplyHook(HooksOf(TypeOf(i), name).deserialize, v)

\* C15: within one batch the intents are dispatched in input order, the
\* request of a later intent is issued only after every earlier request has
\* been answered and its intent has returned, and the aggregated result
\* lists the records in intent order, those of one findAll in the order of
\* the backend's rows.
C15_SequentialInOrder ==
  /\ \A a, b \in DOMAIN requests :
       a < b => requests[a].intent <= requests[b].intent
  /\ \A k \in DOMAIN requests :
       /\ requests[k].intent <= pos
       /\ requests[k].intent <= Len(batch)
       /\ k < Len(requests) =>
            /\ k <= Len(responses)
            /\ responses[k].intent = requests[k].intent
            /\ ~IsSome(responses[k].response.error)
                 \/ (IsRead(requests[k].intent)
                       /\ responses[k].response.error = Some(NotFoundError))
  /\ Len(responses) <= Len(requests)
  /\ Len(requests) - Len(responses) = (IF phase = "BackendCall" THEN 1 ELSE 0)
  /\ \A a, b \in DOMAIN results :
       a < b => results[a].intent <= results[b].intent
  /\ \A i \in Intents :
       kind = "query" /\ batch[i].op = "findRecords" /\ Completed(i)
         => /\ Len(ResultsOf(i)) = Len(RowsOf(i))
            /\ \A j \in DOMAIN RowsOf(i) :
                 ResultsOf(i)[j].record.id = ObjGet(RowsOf(i)[j], n_id)

\* C15 witness: a call of a findAll answered with two rows and a findOne
\* answered with one is done, with the three records in that order.
C15_Witness ==
  /\ phase = "Done"
  /\ kind = "query"
  /\ Len(batch) = 2
  /\ batch[1].op = "findRecords"
  /\ batch[2].op = "findRecord"
  /\ RowsOf(1) = << RowA, RowB >>
  /\ Len(results) = 3
  /\ results[1].intent = 1 /\ results[1].record.id = Str("p1")
  /\ results[2].intent = 1 /\ results[2].record.id = Str("p2")
  /\ results[3].intent = 2 /\ results[3].record.id = Str("p1")

\* the answer is an error that fails its intent: any error, except the
\* not-found code answering a findOne
IsFailureAnswer(k) ==
  /\ IsSome(responses[k].response.error)
  /\ ~(/\ kind = "query"
       /\ batch[responses[k].intent].op = "findRecord"
       /\ responses[k].response.error[1].code = "PGRST116")

\* the kind of request an intent sends when it carries out its operation
ForwardOp(i) ==
  IF kind = "query" THEN "select"
  ELSE IF batch[i].op = "addRecord" THEN "insert"
  ELSE IF batch[i].op = "removeRecord" THEN "delete"
  ELSE "update"

\* C16: when intent k of a batch fails, the requests of the intents before
\* k stay as they were answered (successfully, and none is undone), no
\* request is issued for any later intent, the failed request is not issued
\* again, and the call fails: it never returns a partial result.
C16_FailureAbortsTheRest ==
  /\ \A k \in DOMAIN responses :
       IsFailureAnswer(k) =>
         /\ k = Len(responses)
         /\ k = Len(requests)
         /\ phase = "Failed"
         /\ pos = responses[k].intent
  /\ phase = "Failed" =>
       /\ IsSome(failure)
       /\ pos \in Intents
       /\ Len(requests) = Len(responses)
       /\ \A k \in DOMAIN requests :
            /\ requests[k].intent <= pos
            /\ requests[k].intent < pos => ~IsFailureAnswer(k)
       /\ \A a, b \in DOMAIN requests :
            a < b /\ requests[a].intent = pos => requests[a] # requests[b]
  /\ \A k \in DOMAIN requests :
       requests[k].request.op = ForwardOp(requests[k].intent)
  /\ phase = "Done" =>
       /\ failure = None
       /\ pos = Len(batch) + 1
       /\ \A k \in DOMAIN responses : ~IsFailureAnswer(k)

\* C16 witness: in a call of a create and a delete, the create was answered
\* with its row and the delete with an error; the call failed after these
\* two requests.
C16_Witness ==
  /\ phase = "Failed"
  /\ kind = "update"
  /\ Len(batch) = 2
  /\ batch[1].op = "addRecord"
  /\ batch[2].op = "removeRecord"
  /\ pos = 2
  /\ Len(requests) = 2
  /\ requests[1].request.op = "insert"
  /\ responses[1].response = Response(None, << RowA >>)
  /\ responses[2].response = Response(Some(DeniedError), << >>)
  /\ IsSome(failure)

\* the texts the Error of a rejected call is made of
FailureTexts == { failure[1].prefix, failure[1].message }

\* C17: when an intent of a batch fails, the failure raised to the caller
\* names the index of the failing intent (counted from zero or from one).
C17_FailureNamesIndex ==
  phase = "Failed" =>
    \E text \in FailureTexts : text \in { ToString(pos - 1), ToString(pos) }

\* C18: when the backend reports an error {code, message} for a lookup,
\* insert, update or delete (other than not-found on findOne), the intent
\* fails and the failure raised to the caller carries the backend's code and
\* the backend's message.
C18_FailureCarriesCodeAndMessage ==
  \A k \in DOMAIN responses :
    IsFailureAnswer(k) =>
      /\ phase = "Failed"
      /\ IsSome(failure)
      /\ responses[k].response.error[1].message \in FailureTexts
      /\ responses[k].response.error[1].code \in FailureTexts

\* the hook of the title attribute (stored in column headline) is configured
\* and rejects the value "bad"
TitleHooked ==
  /\ Configured(n_post)
  /\ HooksOf(n_post, n_title).serialize # "none"
  /\ HooksOf(n_post, n_title).deserialize # "none"

\* the rows of an answer before the first one whose headline a hook rejects
RECURSIVE RowsBeforeBad(_)
RowsBeforeBad(rows) ==
  IF rows = << >> \/ ObjGet(Head(rows), n_headline) = Str("bad") THEN << >>
  ELSE << Head(rows) >> \o RowsBeforeBad(Tail(rows))

\* a hook threw while intent i was serializing its record or deserializing
\* the rows it was answered with
HookThrew(i) ==
  /\ TitleHooked
  /\ TypeOf(i) = n_post
  /\ \/ IsWrite(i) /\ Dispatched(i)
          /\ ObjGet(batch[i].record.attributes, n_title) = Str("bad")
     \/ (IsRead(i) \/ IsWrite(i))
          /\ ResponsesOf(i) # << >>
          /\ RowsBeforeBad(RowsOf(i)) # RowsOf(i)

\* C19: when a custom serialize or deserialize hook throws, the intent fails
\* with a TransformError that wraps the hook's failure and names the type and
\* the attribute; the failure is not swallowed, and in a multi-row read the
\* sibling records transformed before it are kept.
C19_HookFailureIsTransformError ==
  \A i \in Intents :
    HookThrew(i) =>
      /\ phase = "Failed"
      /\ pos = i
      /\ IsSome(failure)
      /\ "TransformError" \in FailureTexts
      /\ "post.title" \in FailureTexts
      /\ Len(ResultsOf(i)) = Len(RowsBeforeBad(RowsOf(i)))

\* the configured kind of the relationship of intent i: "hasOne", "hasMany",
\* or "none" when the type or the relationship is not configured
RelationshipKind(i) ==
  IF /\ Configured(TypeOf(i))
     /\ ObjHas(ObjGet(this.typeMap, TypeOf(i)).relationships,
               batch[i].relationship)
    THEN ObjGet(ObjGet(this.typeMap, TypeOf(i)).relationships,
                batch[i].relationship).type
    ELSE "none"

\* the number of requests intent i issues when nothing fails
RequestsDue(i) ==
  IF kind = "query" THEN 1
  ELSE CASE batch[i].op \in { "addRecord", "updateRecord", "removeRecord" } -> 1
         [] batch[i].op \in { "replaceRelatedRecord", "addToRelatedRecords" } ->
              IF \/ RelationshipKind(i) = "hasOne"
                 \/ RelationshipKind(i) = "hasMany" /\ IsSome(batch[i].relatedRecord)
                THEN 1 ELSE 0
         [] batch[i].op = "replaceRelatedRecords" ->
              IF RelationshipKind(i) \in { "hasOne", "hasMany" }
                THEN Len(batch[i].relatedRecord) ELSE 0
         [] OTHER -> 0

\* C20 (as stated): every intent of every kind that completes has issued
\* exactly one request to the backend and completed only after that single
\* request was answered.
C20_ExactlyOneRequest ==
  \A i \in Intents :
    Completed(i) =>
      /\ Len(RequestsOf(i)) = 1
      /\ Len(ResponsesOf(i)) = 1

\* C20 (amended): an intent issues its requests one at a time, each answered
\* before the next is issued, never more than its kind is due, and it
\* completes only after all of them are answered: one for findRecords,
\* findRecord, addRecord, updateRecord and removeRecord; one for
\* replaceRelatedRecord and addToRelatedRecords when the relationship is
\* configured hasOne, or hasMany with a related record, and none otherwise;
\* one per related record for replaceRelatedRecords on a configured
\* relationship; none for removeFromRelatedRecords.
C20_RequestsPerIntent ==
  \A i \in Intents :
    /\ Len(RequestsOf(i)) <= RequestsDue(i)
    /\ Len(RequestsOf(i)) - Len(ResponsesOf(i)) \in { 0, 1 }
    /\ Len(RequestsOf(i)) > Len(ResponsesOf(i)) => pos = i /\ IsSome(inflight)
    /\ Completed(i) =>
         /\ Len(RequestsOf(i)) = RequestsDue(i)
         /\ Len(ResponsesOf(i)) = RequestsDue(i)

C20_Witness ==
  /\ kind = "update"
  /\ Len(batch) = 2
  /\ pos = 3
  /\ batch[1].op = "replaceRelatedRecords"
  /\ batch[2].op = "removeFromRelatedRecords"
  /\ Len(RequestsOf(1)) = 2
  /\ Len(ResponsesOf(1)) = 2
  /\ RequestsOf(2) = << >>

IsUpdateOrDelete(i) ==
  kind = "update" /\ batch[i].op \in { "updateRecord", "removeRecord" }

SerAttributeMaps ==
  { << >>,
    << [k |-> n_title, v |-> AttrConfig(Some(n_headline), "none", "none")] >>,
    << [k |-> n_title, v |-> AttrConfig(None, "enc", "dec")] >> }

SerRelationshipMaps ==
  { << >>,
    << [k |-> n_author, v |-> RelConfig("hasOne", None, Some(n_user))] >>,
    << [k |-> n_author, v |-> RelConfig("hasOne", Some(n_author_id), None)] >> }

SerPostConfigs ==
  { [ tableName |-> None, attributes |-> am, relationships |-> rm,
      createdAt |-> ca, updatedAt |-> None,
      rlsEnabled |-> None, rlsUserIdColumn |-> col ] :
      am \in SerAttributeMaps,
      rm \in SerRelationshipMaps,
      ca \in {None, Some(n_inserted)},
      col \in {None, Some(n_tenant_id)} }

SerSettings ==
  { [ hasGetUserId |-> FALSE, autoInjectUserId |-> None, userIdColumn |-> c,
      typeMap |-> tm, caseTransform |-> ct, selectRelationships |-> None,
      pluralize |-> "default" ] :
      c \in {None, Some(n_owner_id)},
      tm \in {None} \cup { Some(<< [k |-> n_post, v |-> tc] >>) : tc \in SerPostConfigs },
      ct \in {None, Some("none")} }

\* attributes a record may carry, in this order
SerAttributePool ==
  << [k |-> n_title, v |-> Str("x")],
     [k |-> n_viewCount, v |-> Str("y")],
     [k |-> n_userId, v |-> Str("u1")],
     [k |-> n_createdAt, v |-> Str("t0")],
     [k |-> n_id, v |-> Str("p2")] >>

\* the subsequences of a sequence
RECURSIVE SubSeqs(_)
SubSeqs(q) ==
  IF q = << >> THEN { << >> }
  ELSE LET rest == SubSeqs(Tail(q))
       IN rest \cup { << Head(q) >> \o r : r \in rest }

\* normalized records without to-many relationships
SerRecords ==
  { Record(n_post, "p1", attrs, rels) :
      attrs \in SubSeqs(SerAttributePool),
      rels \in { << >>, << [k |-> n_author, v |-> RefOne(n_user, "u9")] >> } }

InitSer ==
  /\ \E settings \in SerSettings : this = SupabaseSource(settings)
  /\ subject = Undefined
  /\ IdleDispatcher
  /\ NoCalls
  /\ serIn \in SerRecords
  /\ serMid = << >>
  /\ serOut = << >>
  /\ serStep = "record"

\* serialize(record)
serializeRecord ==
  /\ serStep = "record"
  /\ serMid' = serialize(this, serIn)
  /\ serStep' = "row"
  /\ UNCHANGED << this, subject, dispatchVars, calls, serIn, serOut >>

\* deserialize(record.type, row) of the row serialize produced
deserializeRow ==
  /\ serStep = "row"
  /\ serOut' = << deserialize(this, serIn.type, serMid) >>
  /\ serStep' = "back"
  /\ UNCHANGED << this, subject, dispatchVars, calls, serIn, serMid >>

NextSer ==
  \/ serializeRecord
  \/ deserializeRow

SpecSer == InitSer /\ [][NextSer]_vars

\* C10: for a record r with no to-many relationships,
\* deserialize(r.type, serialize(r)) has r's id and type and reproduces every
\* attribute (name and value) and every to-one relationship (name, related
\* type and id) of r, except attributes named after the timestamp columns.
C10_RoundTrip ==
  serStep = "back" =>
    LET r == serIn
        d == serOut[1]
    IN /\ d.id = Str(r.id)
       /\ d.type = r.type
       /\ \A a \in DOMAIN r.attributes :
            ColumnName(r.type, r.attributes[a].k) \notin TimestampColumns(r.type)
              => /\ ObjHas(d.attributes, r.attributes[a].k)
                 /\ ObjGet(d.attributes, r.attributes[a].k) = r.attributes[a].v
       /\ \A l \in DOMAIN r.relationships :
            r.relationships[l].v.d = "one"
              => /\ ObjHas(d.relationships, r.relationships[l].k)
                 /\ ObjGet(d.relationships, r.relationships[l].k)
                      = r.relationships[l].v

\* ------------------------------------------------------------------------
\* Specification of the round trip that starts from a backend row
\* ------------------------------------------------------------------------

\* the column the table holds for the title attribute under a configuration
titleColumn(this_) ==
  OrElse(attrConfigOf(getTypeConfig(this_, n_post), n_title).column, n_title)

\* columns a row of the posts table may hold besides id, in this order; the
\* title value is one the configured hooks map to itself there and back
RowColumnPool(this_) ==
  << [k |-> titleColumn(this_), v |-> Str("X")],
     [k |-> n_view_count, v |-> Str("y")],
     [k |-> n_user_id, v |-> Str("u1")],
     [k |-> n_owner_id, v |-> Str("u1")],
     [k |-> n_created_at, v |-> Str("t0")] >>

\* the to-one foreign key column: absent, set or null
RowForeignKeys ==
  { << >>,
    << [k |-> n_author_id, v |-> Str("u9")] >>,
    << [k |-> n_author_id, v |-> Null] >> }

BackendRows(this_) ==
  { << [k |-> n_id, v |-> Str("p1")] >> \o cols \o fk :
      cols \in SubSeqs(RowColumnPool(this_)), fk \in RowForeignKeys }

InitRow ==
  /\ \E settings \in SerSettings : this = SupabaseSource(settings)
  /\ subject = Undefined
  /\ IdleDispatcher
  /\ NoCalls
  /\ serIn \in BackendRows(this)
  /\ serMid = << >>
  /\ serOut = << >>
  /\ serStep = "rowIn"

\* deserialize(type, row) of a backend row
deserializeBackendRow ==
  /\ serStep = "rowIn"
  /\ serMid' = << deserialize(this, n_post, serIn) >>
  /\ serStep' = "recordBack"
  /\ UNCHANGED << this, subject, dispatchVars, calls, serIn, serOut >>

\* the record deserialize returns, as serialize receives it: id a string
asRecord(d) == Record(d.type, d.id.s, d.attributes, d.relationships)

\* serialize of the record deserialize produced
serializeBack ==
  /\ serStep = "recordBack"
  /\ serOut' = serialize(this, asRecord(serMid[1]))
  /\ serStep' = "rowBack"
  /\ UNCHANGED << this, subject, dispatchVars, calls, serIn, serMid >>

NextRow ==
  \/ deserializeBackendRow
  \/ serializeBack

SpecRow == InitRow /\ [][NextRow]_vars

\* C11: for any backend row, serialize(deserialize(type, row)) holds, with
\* the same value, every attribute column and every to-one foreign-key column
\* of the original row, except the timestamp columns and the access-control
\* column (per-type override, else the global column name).
C11_RowRoundTrip ==
  serStep = "rowBack" =>
    \A e \in DOMAIN serIn :
      LET c == serIn[e].k
      IN /\ c # n_id
         /\ c \notin TimestampColumns(n_post)
         /\ c # AccessControlColumn(n_post)
         => /\ ObjHas(serOut, c)
            /\ ObjGet(serOut, c) = serIn[e].v

\* ------------------------------------------------------------------------
\* Specification of the case conversions
\* ------------------------------------------------------------------------

\* most words of an identifier, and most letters of a word
MaxWords == 3

MaxWordLen == 2

\* the lowercase letters identifiers are spelled with
CaseLetters == { "a", "z" }

\* lowercase words of 1 .. MaxWordLen letters
Words == SeqsUpTo(CaseLetters, MaxWordLen) \ { << >> }

\* identifiers of 1 .. n words joined by single underscores
RECURSIVE IdentifiersUpTo(_)
IdentifiersUpTo(n) ==
  IF n = 1 THEN Words
  ELSE LET shorter == IdentifiersUpTo(n - 1)
       IN shorter \cup { x \o << "_" >> \o w : x \in shorter, w \in Words }

InitCase ==
  /\ \E settings \in SerSettings :
       /\ settings.userIdColumn = None
       /\ settings.typeMap = None
       /\ settings.caseTransform = None
       /\ this = SupabaseSource(settings)
  /\ subject = Undefined
  /\ IdleDispatcher
  /\ NoCalls
  /\ serIn \in IdentifiersUpTo(MaxWords)
  /\ serMid = << >>
  /\ serOut = << >>
  /\ serStep = "name"

\* inflector.toCamelCase(x)
camelize ==
  /\ serStep = "name"
  /\ serMid' = << toCamelCase(serIn) >>
  /\ serStep' = "camel"
  /\ UNCHANGED << this, subject, dispatchVars, calls, serIn, serOut >>

\* inflector.toSnakeCase of the camel-cased name
snakeize ==
  /\ serStep = "camel"
  /\ serMid' = Append(serMid, toSnakeCase(serMid[1]))
  /\ serStep' = "snake"
  /\ UNCHANGED << this, subject, dispatchVars, calls, serIn, serOut >>

\* inflector.toCamelCase of the snake-cased name
camelizeAgain ==
  /\ serStep = "snake"
  /\ serOut' = << toCamelCase(serMid[2]) >>
  /\ serStep' = "camelAgain"
  /\ UNCHANGED << this, subject, dispatchVars, calls, serIn, serMid >>

NextCase ==
  \/ camelize
  \/ snakeize
  \/ camelizeAgain

SpecCase == InitCase /\ [][NextCase]_vars

\* C12: for an identifier x of lowercase ASCII words joined by single
\* underscores, toCamel(toSnake(toCamel(x))) equals toCamel(x).
C12_CaseConversionInverse ==
  serStep = "camelAgain" => serOut[1] = serMid[1]

\* C12 witness: a three-word identifier went through the three conversions,
\* its camel form having two capitals and no underscore.
C12_Witness ==
  /\ serStep = "camelAgain"
  /\ serIn = << "a","z","_","z","_","z","a" >>
  /\ serMid[1] = << "a","z","Z","Z","a" >>
  /\ serMid[2] = serIn
  /\ serOut[1] = serMid[1]

\* ------------------------------------------------------------------------
\* Specification of the serializer's relationship loops
\* ------------------------------------------------------------------------

\* typeMap.post.relationships: the dispatch specification's map, and one
\* whose to-one override is already a column name and whose to-many
\* relationship names no inverse type
RelRelationshipMaps ==
  { PostRelationships,
    << [k |-> n_author, v |-> RelConfig("hasOne", Some(n_author_id), None)],
       [k |-> n_comments, v |-> RelConfig("hasMany", None, None)] >> }

RelSettings ==
  { [ hasGetUserId |-> FALSE, autoInjectUserId |-> None, userIdColumn |-> None,
      typeMap |->
        Some(<< [k |-> n_post,
                 v |-> [ tableName |-> None, attributes |-> << >>,
                         relationships |-> rm,
                         createdAt |-> None, updatedAt |-> None,
                         rlsEnabled |-> None, rlsUserIdColumn |-> None ]] >>),
      caseTransform |-> ct, selectRelationships |-> None,
      pluralize |-> "default" ] :
      rm \in RelRelationshipMaps, ct \in {None, Some("none")} }

\* the sequences that take at most one member of each set, in order
RECURSIVE OneOfEach(_)
OneOfEach(sets) ==
  IF sets = << >> THEN { << >> }
  ELSE LET rest == OneOfEach(Tail(sets))
       IN rest \cup { << x >> \o r : x \in Head(sets), r \in rest }

\* records whose relationships are absent, set, cleared (data: null) or,
\* for the to-many one, an empty or non-empty array of identities
RelRecords ==
  { Record(n_post, "p1", << [k |-> n_title, v |-> Str("x")] >>, rels) :
      rels \in OneOfEach(<<
        { [k |-> n_author, v |-> d] : d \in { RefOne(n_user, "u9"), RefNull } },
        { [k |-> n_editor, v |-> d] : d \in { RefOne(n_user, "u8"), RefNull } },
        { [k |-> n_comments, v |-> d] :
            d \in { RefMany(<< >>),
                    RefMany(<< Identity(n_comment, "c1"),
                               Identity(n_comment, "c2") >>) } } >>) }

\* backend rows whose foreign key columns are absent, set, null or empty and
\* whose embedded children are absent, null, an empty or a non-empty array
RelRows ==
  { << [k |-> n_id, v |-> Str("p1")], [k |-> n_title, v |-> Str("x")] >> \o cols :
      cols \in OneOfEach(<<
        { [k |-> n_author_id, v |-> d] : d \in { Str("u9"), Null, Str("") } },
        { [k |-> n_writerId, v |-> d] : d \in { Str("u8"), Null } },
        { [k |-> toSnakeCase(n_writerId), v |-> d] : d \in { Str("u7") } },
        { [k |-> n_comments, v |-> d] :
            d \in { Arr(<< >>), Arr(<< "c1", "c2" >>), Null } } >>) }

\* what replaceRelatedRecord is called with for a to-one relationship: the
\* record, the relationship and the related record or null
RelTargets ==
  { Operation("replaceRelatedRecord", PostIdentity, name, related) :
      name \in { n_author, n_editor },
      related \in { None, Some(Identity(n_user, "u9")) } }

InitRel ==
  /\ \E settings \in RelSettings : this = SupabaseSource(settings)
  /\ subject = Undefined
  /\ IdleDispatcher
  /\ NoCalls
  /\ \/ serStep = "relRecord" /\ serIn \in RelRecords
     \/ serStep = "relRow" /\ serIn \in RelRows
     \/ serStep = "relTarget" /\ serIn \in RelTargets
  /\ serMid = << >>
  /\ serOut = << >>

\* serialize(record) of a record with relationships
serializeRelRecord ==
  /\ serStep = "relRecord"
  /\ serOut' = serialize(this, serIn)
  /\ serStep' = "relRecordDone"
  /\ UNCHANGED << this, subject, dispatchVars, calls, serIn, serMid >>

\* deserialize(type, row) of a row with foreign keys and embedded children
deserializeRelRow ==
  /\ serStep = "relRow"
  /\ serOut' = << deserialize(this, n_post, serIn) >>
  /\ serStep' = "relRowDone"
  /\ UNCHANGED << this, subject, dispatchVars, calls, serIn, serMid >>

\* replaceRelatedRecord up to its await: the request it builds, if any
buildRelatedRecordRequest ==
  /\ serStep = "relTarget"
  /\ serOut' = replaceRelatedRecordRequest(this, serIn.record,
                  serIn.relationship, serIn.relatedRecord)
  /\ serStep' = "relTargetDone"
  /\ UNCHANGED << this, subject, dispatchVars, calls, serIn, serMid >>

NextRel ==
  \/ serializeRelRecord
  \/ deserializeRelRow
  \/ buildRelatedRecordRequest

SpecRel == InitRel /\ [][NextRel]_vars

\* the configured relationships of the post type with their names
PostRelationshipNames ==
  { ObjGet(this.typeMap, n_post).relationships[j].k :
      j \in DOMAIN ObjGet(this.typeMap, n_post).relationships }

RelationshipType(name) ==
  ObjGet(ObjGet(this.typeMap, n_post).relationships, name).type

\* the related type of a relationship: inverseType, else the relationship's
\* own name
InverseType(name) ==
  OrElse(ObjGet(ObjGet(this.typeMap, n_post).relationships, name).inverseType,
         name)

\* C23: serialize writes, for each configured to-one relationship of the
\* record that carries data, the column foreignKeyColumn(type, relationship)
\* with the related record's id, or null when the data is null (a cleared
\* relationship); it writes no key for a to-many relationship.
C23_SerializeWritesForeignKeys ==
  serStep = "relRecordDone" =>
    \A l \in DOMAIN serIn.relationships :
      LET name == serIn.relationships[l].k
          data == serIn.relationships[l].v
      IN name \in PostRelationshipNames =>
           /\ RelationshipType(name) = "hasOne" /\ data.d = "one"
                => /\ ObjHas(serOut, ForeignKeyColumn(n_post, name))
                   /\ ObjGet(serOut, ForeignKeyColumn(n_post, name)) = Str(data.id)
           /\ RelationshipType(name) = "hasOne" /\ data.d = "null"
                => /\ ObjHas(serOut, ForeignKeyColumn(n_post, name))
                   /\ ObjGet(serOut, ForeignKeyColumn(n_post, name)) = Null
           /\ RelationshipType(name) = "hasMany"
                => /\ ~ObjHas(serOut, name)
                   /\ Len(serOut) = Len(ObjWithout(serOut, name))

\* the refs deserialize is to build from the embedded children of a row
EmbeddedRefs(name, children) ==
  RefMany([c \in DOMAIN children |->
             [type |-> InverseType(name), id |-> children[c]]])

\* C24: for every configured to-many relationship whose alias key holds an
\* embedded array in the row, empty or not, deserialize sets
\* relationships[name] to one {type: inverseType, id: child.id} ref per
\* child, and the alias key is not among the record's attributes.
C24_EmbeddedChildrenBecomeRefs ==
  serStep = "relRowDone" =>
    \A name \in PostRelationshipNames :
      /\ RelationshipType(name) = "hasMany"
      /\ ObjHas(serIn, name)
      /\ ObjGet(serIn, name).t = "arr"
      => /\ ObjHas(serOut[1].relationships, name)
         /\ ObjGet(serOut[1].relationships, name)
              = EmbeddedRefs(name, ObjGet(serIn, name).a)
         /\ ~ObjHas(serOut[1].attributes, name)

\* the row holds the column with a value other than null
HoldsNonNull(row, column) == ObjHas(row, column) /\ ObjGet(row, column).t # "null"

\* C25: for every configured to-one relationship, deserialize sets
\* relationships[name] to the ref {type: inverseType, id: row[foreignKeyColumn]}
\* exactly when the row holds the foreign-key column with a non-null value,
\* and sets no entry for the relationship when the column is absent or null.
C25_ForeignKeyBecomesRef ==
  serStep = "relRowDone" =>
    \A name \in PostRelationshipNames :
      RelationshipType(name) = "hasOne" =>
        LET column == ForeignKeyColumn(n_post, name)
        IN IF HoldsNonNull(serIn, column)
             THEN /\ ObjHas(serOut[1].relationships, name)
                  /\ ObjGet(serOut[1].relationships, name)
                       = RefOne(InverseType(name), ObjGet(serIn, column).s)
             ELSE ~ObjHas(serOut[1].relationships, name)

\* the columns a serialized row or a request payload holds
ColumnsOf(row) == { row[j].k : j \in DOMAIN row }

\* C29: serialize, deserialize and the to-one replaceRelatedRecord resolve
\* the same foreign-key column for a (type, relationship): the configured
\* foreignKey override exactly as configured when there is one, else the
\* snake-cased "{relationship}_id".
C29_OneForeignKeyColumn ==
  /\ serStep = "relRecordDone" =>
       \A l \in DOMAIN serIn.relationships :
         LET name == serIn.relationships[l].k
         IN /\ name \in PostRelationshipNames
            /\ RelationshipType(name) = "hasOne"
            /\ serIn.relationships[l].v.d = "one"
            => ForeignKeyColumn(n_post, name) \in ColumnsOf(serOut)
  /\ serStep = "relRowDone" =>
       \A name \in PostRelationshipNames :
         RelationshipType(name) = "hasOne" =>
           (ObjHas(serOut[1].relationships, name)
              <=> Truthy(ObjGet(serIn, ForeignKeyColumn(n_post, name))))
  /\ serStep = "relTargetDone"
       /\ serIn.relationship \in PostRelationshipNames
       /\ RelationshipType(serIn.relationship) = "hasOne"
       => /\ IsSome(serOut)
          /\ ColumnsOf(serOut[1].payload)
               = { ForeignKeyColumn(n_post, serIn.relationship) }

\* ------------------------------------------------------------------------
\* Specification of the relationship operations
\* ------------------------------------------------------------------------

\* typeMap for the relationship operations: the post type of the dispatch
\* specification, an owner type with a camel-case name, and a related type
\* with a table override
LinkTypeMaps ==
  { << [k |-> n_post,
        v |-> [EmptyTypeConfig EXCEPT !.relationships = PostRelationships]] >>,
    << [k |-> n_post,
        v |-> [EmptyTypeConfig EXCEPT !.relationships = PostRelationships]],
       [k |-> n_blogPost,
        v |-> [EmptyTypeConfig EXCEPT !.relationships =
                 << [k |-> n_comments, v |-> RelConfig("hasMany", None, None)] >>]],
       [k |-> n_comment,
        v |-> [EmptyTypeConfig EXCEPT !.tableName = Some(n_remarks)]] >> }

LinkSettings ==
  { [ hasGetUserId |-> FALSE, autoInjectUserId |-> None, userIdColumn |-> None,
      typeMap |-> tm, caseTransform |-> None, selectRelationships |-> None,
      pluralize |-> p ] :
      tm \in {None} \cup { Some(m) : m \in LinkTypeMaps },
      p \in {"default", "custom"} }

BlogPostIdentity == Record(n_blogPost, "b1", << >>, << >>)

\* the related records the operations name
CommentOne == Identity(n_comment, "c1")

CommentTwo == Identity(n_comment, "c2")

\* relationship operations on both owners: to-one and to-many, with a
\* related record and with null, lists of two, one and no related records
LinkOperations ==
  { Operation(op, owner, n_comments, Some(CommentOne)) :
      op \in { "replaceRelatedRecord", "addToRelatedRecords",
               "removeFromRelatedRecords" },
      owner \in { PostIdentity, BlogPostIdentity } }
  \cup { Operation("replaceRelatedRecords", owner, n_comments, targets) :
           owner \in { PostIdentity, BlogPostIdentity },
           targets \in { << CommentOne, CommentTwo >>, << CommentTwo >> } }
  \cup { Operation("replaceRelatedRecord", PostIdentity, n_comments, None),
         Operation("replaceRelatedRecord", PostIdentity, n_editor,
                   Some(Identity(n_user, "u9"))),
         Operation("replaceRelatedRecord", PostIdentity, n_author, None),
         Operation("addToRelatedRecords", PostIdentity, n_editor,
                   Some(Identity(n_user, "u9"))),
         Operation("replaceRelatedRecords", PostIdentity, n_comments, << >>),
         Operation("replaceRelatedRecords", PostIdentity, n_author,
                   << Identity(n_user, "u9"), Identity(n_user, "u8") >>) }

InitLink ==
  /\ \E settings \in LinkSettings : this = SupabaseSource(settings)
  /\ subject = Undefined
  /\ IdleDispatcher
  /\ NoCalls
  /\ NoSer

\* _update called with relationship operations
updateLinks ==
  /\ phase = "Idle"
  /\ \E ops \in Batches(LinkOperations) :
       /\ kind' = "update"
       /\ batch' = ops
  /\ pos' = 1
  /\ phase' = "Running"
  /\ UNCHANGED << this, subject, sub, inflight, requests, results, failure,
                  getUserIdCalls, responses, serVars, calls >>

NextLink ==
  \/ updateLinks
  \/ replaceRelatedRecord
  \/ replaceRelatedRecordResume
  \/ replaceRelatedRecords
  \/ replaceRelatedRecordsResume
  \/ addToRelatedRecords
  \/ addToRelatedRecordsResume
  \/ removeFromRelatedRecords

SpecLink == InitLink /\ [][NextLink]_vars

\* the requests of intent i without their intent tags
IssuedBy(i) == [j \in DOMAIN RequestsOf(i) |-> RequestsOf(i)[j].request]

\* the kind a relationship of a type is configured with, "none" without
\* configuration
KindOf(type, relationship) ==
  IF /\ Configured(type)
     /\ ObjHas(ObjGet(this.typeMap, type).relationships, relationship)
    THEN ObjGet(ObjGet(this.typeMap, type).relationships, relationship).type
    ELSE "none"

\* the update on one row that sets one column
SetColumn(table, id, column, value) ==
  Request("update", table, << >>, None, << Eq(n_id, Str(id)) >>,
          << [k |-> column, v |-> value] >>, FALSE, FALSE)

\* the update of a to-many replaceRelatedRecord with a related record, its
\* column spelled as given
ChildPointsToParent(owner, target, column) ==
  SetColumn(TableName(target.type), target.id, column, Str(owner.id))

IsToManySet(i) ==
  /\ kind = "update"
  /\ batch[i].op = "replaceRelatedRecord"
  /\ KindOf(TypeOf(i), batch[i].relationship) = "hasMany"
  /\ IsSome(batch[i].relatedRecord)

\* C26 (as stated): for a relationship configured to-many,
\* replaceRelatedRecord with a non-null related record issues exactly one
\* update on the related type's table, filtered by the related record's id,
\* that sets the column "{owner.type}_id" to the owner's id, and writes
\* nothing to the owner's row.
C26_ToManySetWritesChild ==
  \A i \in Intents :
    IsToManySet(i) /\ Dispatched(i) =>
      IssuedBy(i) = << ChildPointsToParent(batch[i].record,
                         batch[i].relatedRecord[1],
                         batch[i].record.type \o n_idSuffix) >>

\* C26 (amended): as above, the column being the snake-cased
\* "{owner.type}_id".
C26_ToManySetWritesChildSnake ==
  \A i \in Intents :
    IsToManySet(i) /\ Dispatched(i) =>
      /\ IssuedBy(i) = << ChildPointsToParent(batch[i].record,
                            batch[i].relatedRecord[1],
                            toSnakeCase(batch[i].record.type \o n_idSuffix)) >>
      /\ \A j \in DOMAIN IssuedBy(i) :
           ~(/\ IssuedBy(i)[j].table = TableName(TypeOf(i))
             /\ HasFilter(IssuedBy(i)[j], n_id, Str(batch[i].record.id)))

\* C26 witness: the owner of type blogPost was set as the parent of a comment
\* in the overridden table of comments.
C26_Witness ==
  /\ kind = "update"
  /\ batch = << Operation("replaceRelatedRecord", BlogPostIdentity, n_comments,
                          Some(CommentOne)) >>
  /\ phase = "Done"
  /\ Len(requests) = 1
  /\ requests[1].request.table = n_remarks
  /\ requests[1].request.payload
       = << [k |-> toSnakeCase(n_blogPost \o n_idSuffix), v |-> Str("b1")] >>
  /\ HasFilter(requests[1].request, n_id, Str("c1"))

\* what replaceRelatedRecord(owner, relationship, target) issues: one update
\* of the owner's foreign key for a to-one relationship, one update of the
\* related record's parent column for a to-many relationship with a related
\* record, nothing otherwise
SetOneIssues(owner, relationship, target) ==
  IF KindOf(owner.type, relationship) = "hasOne"
    THEN << SetColumn(TableName(owner.type), owner.id,
                      toSnakeCase(ForeignKeyColumn(owner.type, relationship)),
                      IF IsSome(target) THEN Str(target[1].id) ELSE Null) >>
  ELSE IF KindOf(owner.type, relationship) = "hasMany" /\ IsSome(target)
    THEN << ChildPointsToParent(owner, target[1],
                                toSnakeCase(owner.type \o n_idSuffix)) >>
  ELSE << >>

\* the requests of replaceRelatedRecord for each related record, in order
RECURSIVE SetOneIssuesForEach(_, _, _)
SetOneIssuesForEach(owner, relationship, targets) ==
  IF targets = << >> THEN << >>
  ELSE SetOneIssues(owner, relationship, Some(Head(targets)))
         \o SetOneIssuesForEach(owner, relationship, Tail(targets))

IsPrefix(a, b) == Len(a) <= Len(b) /\ a = SubSeq(b, 1, Len(a))

IsSetOne(i) == kind = "update" /\ batch[i].op = "replaceRelatedRecord"

IsSetMany(i) == kind = "update" /\ batch[i].op = "replaceRelatedRecords"

\* the request writes the row of the record in the record's table
WritesRowOf(request, record) ==
  /\ request.table = TableName(record.type)
  /\ HasFilter(request, n_id, Str(record.id))

IsAddTo(i) == kind = "update" /\ batch[i].op = "addToRelatedRecords"

IsRemoveFrom(i) == kind = "update" /\ batch[i].op = "removeFromRelatedRecords"

\* C28: addToRelatedRecords(owner, relationship, target) issues exactly the
\* request replaceRelatedRecord(owner, relationship, target) issues;
\* removeFromRelatedRecords issues no request, receives no answer, never
\* fails and returns with no result.
C28_AddToIsSetOneRemoveFromIsNoop ==
  /\ \A i \in Intents :
       IsAddTo(i) /\ Dispatched(i) =>
         IssuedBy(i) = SetOneIssues(batch[i].record, batch[i].relationship,
                                    batch[i].relatedRecord)
  /\ \A i, k \in Intents :
       /\ IsSetOne(i)
       /\ IsAddTo(k)
       /\ Dispatched(i)
       /\ Dispatched(k)
       /\ batch[k].record = batch[i].record
       /\ batch[k].relationship = batch[i].relationship
       /\ batch[k].relatedRecord = batch[i].relatedRecord
       => IssuedBy(k) = IssuedBy(i)
  /\ \A i \in Intents :
       IsRemoveFrom(i) =>
         /\ RequestsOf(i) = << >>
         /\ ResponsesOf(i) = << >>
         /\ ResultsOf(i) = << >>
         /\ ~(phase = "Failed" /\ pos = i)
         /\ ~(phase = "BackendCall" /\ pos = i)

\* C28 witness: a comment was added to an owner with the one update that
\* points it to the owner, and the removal after it returned at once.
C28_Witness ==
  /\ kind = "update"
  /\ Len(batch) = 2
  /\ IsAddTo(1)
  /\ batch[1].relationship = n_comments
  /\ IsRemoveFrom(2)
  /\ phase = "Done"
  /\ Len(requests) = 1
  /\ requests[1].intent = 1
  /\ WritesRowOf(requests[1].request, CommentOne)
  /\ results = << >>
  /\ failure = None

\* ------------------------------------------------------------------------
\* Specification of a session whose subject changes while a call runs
\* ------------------------------------------------------------------------

\* what the accessor can return over time: no subject, or one of two users
SessionSubjects == { Null, Str("u1"), Str("u2") }

\* sources with an accessor, for a post type that is access-controlled by
\* default or per type under its own column
SessionSettings ==
  { [ hasGetUserId |-> TRUE, autoInjectUserId |-> None, userIdColumn |-> None,
      typeMap |-> tm, caseTransform |-> None, selectRelationships |-> None,
      pluralize |-> "default" ] :
      tm \in { None,
               Some(<< [k |-> n_post,
                        v |-> [EmptyTypeConfig EXCEPT
                                 !.rlsEnabled = Some(TRUE),
                                 !.rlsUserIdColumn = Some(n_tenant_id)]] >>) } }

SessionExpressions ==
  { [op |-> "findRecords", type |-> n_post, id |-> ""],
    [op |-> "findRecord", type |-> n_post, id |-> "p1"] }

SessionOperations ==
  { Operation("addRecord", r, << >>, None) : r \in { PlainRecord, OwnedRecord } }

InitSession ==
  /\ \E settings \in SessionSettings : this = SupabaseSource(settings)
  /\ subject \in SessionSubjects
  /\ IdleDispatcher
  /\ NoCalls
  /\ NoSer

\* _query called with lookups of the access-controlled type
queryPosts ==
  /\ phase = "Idle"
  /\ \E expressions \in Batches(SessionExpressions) :
       /\ kind' = "query"
       /\ batch' = expressions
  /\ pos' = 1
  /\ phase' = "Running"
  /\ UNCHANGED << this, subject, sub, inflight, requests, results, failure,
                  getUserIdCalls, responses, serVars, calls >>

\* _update called with creates of the access-controlled type
updatePosts ==
  /\ phase = "Idle"
  /\ \E ops \in Batches(SessionOperations) :
       /\ kind' = "update"
       /\ batch' = ops
  /\ pos' = 1
  /\ phase' = "Running"
  /\ UNCHANGED << this, subject, sub, inflight, requests, results, failure,
                  getUserIdCalls, responses, serVars, calls >>

\* the session behind the accessor changes: sign-in, sign-out or another
\* user, at any moment of a call
subjectChanges ==
  /\ subject' \in SessionSubjects \ { subject }
  /\ UNCHANGED << this, dispatchVars, serVars, calls >>

NextSession ==
  \/ queryPosts
  \/ updatePosts
  \/ findRecords
  \/ findRecordsResume
  \/ findRecord
  \/ findRecordResume
  \/ addRecord
  \/ addRecordResume
  \/ subjectChanges

SpecSession == InitSession /\ [][NextSession]_vars

\* the step invokes the accessor for the intent being dispatched
InvokesAccessor == getUserIdCalls' = Append(getUserIdCalls, pos)

\* the step dispatches the intent at pos: it leaves the loop's hands
DispatchesIntent == phase = "Running" /\ phase' # "Running"

\* the request carries the value as a read's access filter or a create's
\* access column
CarriesSubject(i, request, value) ==
  /\ IsRead(i) => HasFilter(request, AccessControlColumn(TypeOf(i)), value)
  /\ IsCreate(i) =>
       ObjGet(request.payload, AccessControlColumn(TypeOf(i))) = value

\* C30: the subject of an intent's access filter or injected access column
\* is what the accessor returns in the step that dispatches the intent,
\* after every earlier intent's request was answered: a subject that changed
\* since an earlier intent shows in the later intent's request, a subject
\* that went absent fails the later intent with the missing-subject error,
\* and the requests already issued keep the subject they were issued with.
C30_SubjectReadAtDispatch ==
  [][ /\ IsPrefix(requests, requests')
      /\ DispatchesIntent =>
           /\ InvokesAccessor
           /\ Len(responses) = Len(requests)
           /\ \A k \in DOMAIN requests : requests[k].intent < pos
           /\ IF Truthy(subject)
                THEN /\ Len(requests') = Len(requests) + 1
                     /\ requests'[Len(requests')].intent = pos
                     /\ CarriesSubject(pos, requests'[Len(requests')].request,
                                       subject)
                ELSE /\ requests' = requests
                     /\ phase' = "Failed"
                     /\ failure' = Some(MissingUserId)
    ]_vars

\* C30 witness: two lookups of one call, the first filtered by the subject
\* u1 and answered, the second filtered by the subject u2 the session
\* changed to in between.
C30_Witness ==
  /\ kind = "query"
  /\ Len(batch) = 2
  /\ Len(requests) = 2
  /\ requests[1].intent = 1
  /\ requests[2].intent = 2
  /\ HasFilter(requests[1].request, AccessControlColumn(n_post), Str("u1"))
  /\ HasFilter(requests[2].request, AccessControlColumn(n_post), Str("u2"))
  /\ Len(responses) = 1

\* ------------------------------------------------------------------------
\* Specification of concurrent calls on one source
\* ------------------------------------------------------------------------

\* most calls under way at once on the one source
MaxCalls == 2

CallIds == 1 .. MaxCalls

ConcurrentSettings ==
  { [ hasGetUserId |-> TRUE, autoInjectUserId |-> a, userIdColumn |-> None,
      typeMap |-> None, caseTransform |-> None, selectRelationships |-> None,
      pluralize |-> "default" ] :
      a \in {None, Some(FALSE)} }

ConcurrentExpressions ==
  { [op |-> "findRecords", type |-> n_post, id |-> ""],
    [op |-> "findRecord", type |-> n_post, id |-> "p1"] }

ConcurrentOperations ==
  { Operation("addRecord", PlainRecord, << >>, None),
    Operation("removeRecord", PostIdentity, << >>, None) }

\* the backend's answers to the concurrent calls
ConcurrentListResponses ==
  { Response(Some(DeniedError), << >>), Response(None, << RowA, RowB >>) }

ConcurrentSingleResponses ==
  { Response(Some(NotFoundError), << >>), Response(None, << RowA >>) }

\* the locals of a call of _query or _update that has not started; requests
\* and results carry the call and the intent whose handler made them
IdleCall ==
  [ kind |-> "none", batch |-> << >>, pos |-> 0, phase |-> "Idle",
    inflight |-> None, requests |-> << >>, results |-> << >>,
    failure |-> None ]

InitConcurrent ==
  /\ \E settings \in ConcurrentSettings : this = SupabaseSource(settings)
  /\ subject \in Subjects
  /\ IdleDispatcher
  /\ NoSer
  /\ calls = [c \in CallIds |-> IdleCall]

\* how a handler leaves its call: at an await with a request, by throwing,
\* or by returning records
Issues(request) ==
  [tag |-> "issue", request |-> Some(request), error |-> None, records |-> << >>]

Throws(error) ==
  [tag |-> "throw", request |-> None, error |-> Some(error), records |-> << >>]

Returns(records) ==
  [tag |-> "return", request |-> None, error |-> None, records |-> records]

\* findRecords up to its await
findRecordsCalled(this_, userId, type) ==
  IF shouldApplyRLS(this_, type)
    THEN IF ~Truthy(userId) THEN Throws(MissingUserId)
         ELSE Issues(findRecordsRequest(this_, type, userId))
    ELSE Issues(findRecordsRequest(this_, type, Undefined))

\* findRecords from its await on
findRecordsAnswered(this_, type, r) ==
  IF IsSome(r.error)
    THEN Throws(BackendFailure("Supabase query error", r.error[1]))
  ELSE IF \E i \in DOMAIN r.data : deserializeHookThrows(this_, type, r.data[i])
    THEN Throws(HookFailure)
  ELSE IF \E i \in DOMAIN r.data : deserializeThrows(this_, type, r.data[i])
    THEN Throws(TypeErrorFailure)
  ELSE Returns([i \in DOMAIN r.data |-> deserialize(this_, type, r.data[i])])

\* return this.serializer.deserialize(type, data), as an outcome
deserializedOutcome(this_, type, data) ==
  IF deserializeHookThrows(this_, type, data[1]) THEN Throws(HookFailure)
  ELSE IF deserializeThrows(this_, type, data[1]) THEN Throws(TypeErrorFailure)
  ELSE Returns(<< deserialize(this_, type, data[1]) >>)

\* findRecord up to its await
findRecordCalled(this_, userId, type, id) ==
  IF shouldApplyRLS(this_, type)
    THEN IF ~Truthy(userId) THEN Throws(MissingUserId)
         ELSE Issues(findRecordRequest(this_, type, id, userId))
    ELSE Issues(findRecordRequest(this_, type, id, Undefined))

\* findRecord from its await on, and queryExpression's r ? [r] : []
findRecordAnswered(this_, type, r) ==
  IF IsSome(r.error)
    THEN IF isNotFound(r.error[1]) THEN Returns(<< >>)
         ELSE Throws(BackendFailure("Supabase query error", r.error[1]))
    ELSE deserializedOutcome(this_, type, r.data)

\* addRecord up to its await
addRecordCalled(this_, userId, record) ==
  IF serializeThrows(this_, record) THEN Throws(HookFailure)
  ELSE IF addRecordInjects(this_, record.type)
    THEN IF ~Truthy(userId) THEN Throws(MissingUserId)
         ELSE Issues(addRecordRequest(this_, record, userId))
    ELSE Issues(addRecordRequest(this_, record, Undefined))

\* addRecord from its await on
addRecordAnswered(this_, record, r) ==
  IF IsSome(r.error)
    THEN Throws(BackendFailure("Supabase insert error", r.error[1]))
    ELSE deserializedOutcome(this_, record.type, r.data)

\* removeRecord up to its await
removeRecordCalled(this_, record) == Issues(removeRecordRequest(this_, record))

\* removeRecord from its await on
removeRecordAnswered(r) ==
  IF IsSome(r.error)
    THEN Throws(BackendFailure("Supabase delete error", r.error[1]))
    ELSE Returns(<< >>)

\* a results array kept on the source: every call under way receives the
\* records
pushResults_Shared(cs, c, records) ==
  [d \in DOMAIN cs |->
     [cs[d] EXCEPT !.results =
        @ \o [i \in DOMAIN records |->
                [call |-> c, intent |-> cs[c].pos, record |-> records[i]]]]]

\* results.push(...records) on the results array of call c
pushResults(cs, c, records) ==
  [cs EXCEPT ![c].results =
     @ \o [i \in DOMAIN records |->
             [call |-> c, intent |-> cs[c].pos, record |-> records[i]]]]

\* the locals of the calls once the handler of call c has left with outcome
afterOutcome(cs, c, outcome) ==
  IF outcome.tag = "issue"
    THEN [cs EXCEPT ![c].phase = "BackendCall",
                    ![c].inflight = outcome.request,
                    ![c].requests =
                      Append(@, [call |-> c, intent |-> cs[c].pos,
                                 request |-> outcome.request[1]])]
  ELSE IF outcome.tag = "throw"
    THEN [cs EXCEPT ![c].phase = "Failed",
                    ![c].inflight = None,
                    ![c].failure = outcome.error]
  ELSE [pushResults(cs, c, outcome.records) EXCEPT
          ![c].inflight = None,
          ![c].pos = @ + 1,
          ![c].phase = IF cs[c].pos = Len(cs[c].batch) THEN "Done"
                       ELSE "Running"]

\* call c is in its loop, about to run the handler of op
CallRunning(c, entry, op) ==
  /\ calls[c].phase = "Running"
  /\ calls[c].kind = entry
  /\ calls[c].batch[calls[c].pos].op = op

\* call c awaits the backend inside the handler of op
CallAwaiting(c, op) ==
  /\ calls[c].phase = "BackendCall"
  /\ calls[c].batch[calls[c].pos].op = op

\* the intent call c is at
IntentOf(c) == calls[c].batch[calls[c].pos]

\* a caller calls _query while other calls may be under way
concurrentQuery ==
  /\ \E c \in CallIds, expressions \in Batches(ConcurrentExpressions) :
       /\ calls[c].phase = "Idle"
       /\ calls' = [calls EXCEPT ![c] =
                      [IdleCall EXCEPT !.kind = "query", !.batch = expressions,
                                       !.pos = 1, !.phase = "Running"]]
  /\ UNCHANGED << this, subject, dispatchVars, serVars >>

\* a caller calls _update while other calls may be under way
concurrentUpdate ==
  /\ \E c \in CallIds, ops \in Batches(ConcurrentOperations) :
       /\ calls[c].phase = "Idle"
       /\ calls' = [calls EXCEPT ![c] =
                      [IdleCall EXCEPT !.kind = "update", !.batch = ops,
                                       !.pos = 1, !.phase = "Running"]]
  /\ UNCHANGED << this, subject, dispatchVars, serVars >>

concurrentFindRecords ==
  /\ \E c \in CallIds :
       /\ CallRunning(c, "query", "findRecords")
       /\ calls' = afterOutcome(calls, c,
                     findRecordsCalled(this, getUserId, IntentOf(c).type))
  /\ UNCHANGED << this, subject, dispatchVars, serVars >>

concurrentFindRecordsResume ==
  /\ \E c \in CallIds, r \in ConcurrentListResponses :
       /\ CallAwaiting(c, "findRecords")
       /\ calls' = afterOutcome(calls, c,
                     findRecordsAnswered(this, IntentOf(c).type, r))
  /\ UNCHANGED << this, subject, dispatchVars, serVars >>

concurrentFindRecord ==
  /\ \E c \in CallIds :
       /\ CallRunning(c, "query", "findRecord")
       /\ calls' = afterOutcome(calls, c,
                     findRecordCalled(this, getUserId, IntentOf(c).type,
                                      IntentOf(c).id))
  /\ UNCHANGED << this, subject, dispatchVars, serVars >>

concurrentFindRecordResume ==
  /\ \E c \in CallIds, r \in ConcurrentSingleResponses :
       /\ CallAwaiting(c, "findRecord")
       /\ calls' = afterOutcome(calls, c,
                     findRecordAnswered(this, IntentOf(c).type, r))
  /\ UNCHANGED << this, subject, dispatchVars, serVars >>

concurrentAddRecord ==
  /\ \E c \in CallIds :
       /\ CallRunning(c, "update", "addRecord")
       /\ calls' = afterOutcome(calls, c,
                     addRecordCalled(this, getUserId, IntentOf(c).record))
  /\ UNCHANGED << this, subject, dispatchVars, serVars >>

concurrentAddRecordResume ==
  /\ \E c \in CallIds, r \in SingleResponses :
       /\ CallAwaiting(c, "addRecord")
       /\ calls' = afterOutcome(calls, c,
                     addRecordAnswered(this, IntentOf(c).record, r))
  /\ UNCHANGED << this, subject, dispatchVars, serVars >>

concurrentRemoveRecord ==
  /\ \E c \in CallIds :
       /\ CallRunning(c, "update", "removeRecord")
       /\ calls' = afterOutcome(calls, c,
                     removeRecordCalled(this, IntentOf(c).record))
  /\ UNCHANGED << this, subject, dispatchVars, serVars >>

concurrentRemoveRecordResume ==
  /\ \E c \in CallIds, r \in PlainResponses :
       /\ CallAwaiting(c, "removeRecord")
       /\ calls' = afterOutcome(calls, c, removeRecordAnswered(r))
  /\ UNCHANGED << this, subject, dispatchVars, serVars >>

NextConcurrent ==
  \/ concurrentQuery
  \/ concurrentUpdate
  \/ concurrentFindRecords
  \/ concurrentFindRecordsResume
  \/ concurrentFindRecord
  \/ concurrentFindRecordResume
  \/ concurrentAddRecord
  \/ concurrentAddRecordResume
  \/ concurrentRemoveRecord
  \/ concurrentRemoveRecordResume

SpecConcurrent == InitConcurrent /\ [][NextConcurrent]_vars

\* the backend operation the handler of an intent asks for
BackendOpOf(intent) ==
  CASE intent.op = "findRecords" -> "select"
    [] intent.op = "findRecord" -> "select"
    [] intent.op = "addRecord" -> "insert"
    [] intent.op = "removeRecord" -> "delete"

\* the requests call c has issued are its own, one for each intent in the
\* order of its batch
OwnRequestsInOrder(cs, c) ==
  \A k \in DOMAIN cs[c].requests :
    /\ cs[c].requests[k].call = c
    /\ cs[c].requests[k].intent \in DOMAIN cs[c].batch
    /\ cs[c].requests[k].intent <= cs[c].pos
    /\ cs[c].requests[k].request.op
         = BackendOpOf(cs[c].batch[cs[c].requests[k].intent])
    /\ k > 1 => cs[c].requests[k - 1].intent < cs[c].requests[k].intent

\* the results of call c hold only records its own intents produced, in the
\* order of its batch
OwnResultsInOrder(cs, c) ==
  \A k \in DOMAIN cs[c].results :
    /\ cs[c].results[k].call = c
    /\ cs[c].results[k].intent \in DOMAIN cs[c].batch
    /\ \E j \in DOMAIN cs[c].requests :
         cs[c].requests[j].intent = cs[c].results[k].intent
    /\ k > 1 => cs[c].results[k - 1].intent <= cs[c].results[k].intent

\* C21: when two or more batches run at once on one source, with their
\* backend requests interleaved in any order, every step belongs to one call
\* and leaves the locals of every other call as they were; each call issues
\* its own requests in the order of its batch, one after the other; the
\* results of a call hold only records of its own intents; and no step
\* changes the configuration of the source.
C21_ConcurrentCallsIsolated ==
  [][ /\ this' = this
      /\ \E c \in CallIds : \A d \in CallIds \ {c} : calls'[d] = calls[d]
      /\ \A c \in CallIds :
           /\ IsPrefix(calls[c].requests, calls'[c].requests)
           /\ Len(calls'[c].requests) <= Len(calls[c].requests) + 1
           /\ IsPrefix(calls[c].results, calls'[c].results)
           /\ calls[c].batch # << >> => calls'[c].batch = calls[c].batch
           /\ OwnRequestsInOrder(calls', c)
           /\ OwnResultsInOrder(calls', c) ]_vars

\* both calls await the backend at once, each at its second intent with
\* the records of its first intent in its results
C21_Witness ==
  /\ calls[1].kind = "query"
  /\ calls[2].kind = "update"
  /\ calls[1].phase = "BackendCall"
  /\ calls[2].phase = "BackendCall"
  /\ calls[1].pos = 2
  /\ calls[2].pos = 2
  /\ Len(calls[1].results) = 2
  /\ Len(calls[2].results) = 1

====
